---- MODULE Spec2Model ----
(***************************************************************************)
(* A model of the clinic-leads scrapers src/py.py and src/Scrap.py; both   *)
(* define a class WebsiteScraper, and `variant` says which one runs; and   *)
(* of the prospecting agent src/Scrapper.py (variant "Scrapper").          *)
(*                                                                         *)
(* Python strings are TLA+ strings; a character is a string of length 1.   *)
(* Python's None is the model value None == "<None>" (never a page text).  *)
(* A fetched page is a parsed document: an optional <title> and a flat     *)
(* list of elements (tag, class attribute, href attribute, text); the      *)
(* BeautifulSoup queries the code makes are operators over that list.      *)
(* Regular expressions are syntax trees run by a backtracking matcher that *)
(* lists the matches in the order Python's re tries them.                  *)
(***************************************************************************)
EXTENDS Integers, Sequences, FiniteSets, TLC

(***************************************************************************)
(* Strings                                                                 *)
(***************************************************************************)
None == "<None>"

\* s[i], 1-based
Ch(s, i) == SubSeq(s, i, i)

UpperChars == "ABCDEFGHIJKLMNOPQRSTUVWXYZ"
LowerChars == "abcdefghijklmnopqrstuvwxyz"
DigitChars == "0123456789"

CharsOf(s) == { Ch(s, i) : i \in 1..Len(s) }

Upper == CharsOf(UpperChars)
Lower == CharsOf(LowerChars)
Digit == CharsOf(DigitChars)
Space == {" "}
\* \w of Python's re, restricted to the characters the model's pages use
WordChar == Upper \cup Lower \cup Digit \cup {"_"}

\* str.lower() on one character
LowerChar(c) ==
  IF c \in Upper
    THEN Ch(LowerChars, CHOOSE k \in 1..Len(UpperChars) : Ch(UpperChars, k) = c)
    ELSE c

\* str.lower(): every character lower-cased, the halves of s one after the other
RECURSIVE ToLower(_)
ToLower(s) ==
  IF Len(s) = 0 THEN ""
  ELSE IF Len(s) = 1 THEN LowerChar(s)
  ELSE ToLower(SubSeq(s, 1, Len(s) \div 2)) \o ToLower(SubSeq(s, Len(s) \div 2 + 1, Len(s)))

\* Python's s[a:b] for 0 <= a, with b clamped to len(s)
Slice(s, a, b) ==
  LET e == IF b > Len(s) THEN Len(s) ELSE b
  IN IF a >= e THEN "" ELSE SubSeq(s, a + 1, e)

\* Python's `needle in hay`
Contains(needle, hay) ==
  \/ Len(needle) = 0
  \/ \E i \in 0..(Len(hay) - Len(needle)) : SubSeq(hay, i + 1, i + Len(needle)) = needle

\* str.startswith
StartsWith(s, prefix) ==
  /\ Len(prefix) <= Len(s)
  /\ Slice(s, 0, Len(prefix)) = prefix

\* str.strip(): white space removed at both ends
RECURSIVE LStrip(_)
LStrip(s) ==
  IF Len(s) > 0 /\ Ch(s, 1) \in Space THEN LStrip(SubSeq(s, 2, Len(s))) ELSE s

RECURSIVE RStrip(_)
RStrip(s) ==
  IF Len(s) > 0 /\ Ch(s, Len(s)) \in Space THEN RStrip(Slice(s, 0, Len(s) - 1)) ELSE s

Strip(s) == LStrip(RStrip(s))

\* str.replace(old, "") for a non-empty old: every occurrence removed, left to right
RECURSIVE Remove(_, _)
Remove(s, old) ==
  IF Len(s) = 0 THEN ""
  ELSE IF StartsWith(s, old) THEN Remove(SubSeq(s, Len(old) + 1, Len(s)), old)
  ELSE Ch(s, 1) \o Remove(SubSeq(s, 2, Len(s)), old)

\* str.split(sep)[0] for a one-character sep: the part before the first sep
RECURSIVE BeforeFirst(_, _)
BeforeFirst(s, sep) ==
  IF Len(s) = 0 \/ Ch(s, 1) = sep THEN ""
  ELSE Ch(s, 1) \o BeforeFirst(SubSeq(s, 2, Len(s)), sep)

\* sep.join(parts)
RECURSIVE Join(_, _)
Join(sep, parts) ==
  IF parts = << >> THEN ""
  ELSE IF Len(parts) = 1 THEN parts[1]
  ELSE parts[1] \o sep \o Join(sep, Tail(parts))

\* pieces[lo] \o ... \o pieces[hi], the halves of the range one after the other
RECURSIVE JoinRange(_, _, _)
JoinRange(pieces, lo, hi) ==
  IF lo > hi THEN ""
  ELSE IF lo = hi THEN pieces[lo]
  ELSE JoinRange(pieces, lo, (lo + hi) \div 2) \o JoinRange(pieces, (lo + hi) \div 2 + 1, hi)

\* the elements of a finite set of integers in increasing order
RECURSIVE Ascending(_)
Ascending(S) ==
  IF S = {} THEN << >>
  ELSE LET least == CHOOSE x \in S : \A y \in S : x <= y
       IN << least >> \o Ascending(S \ {least})

\* the truth value Python gives a str or None (`if x:`, `not x`, `c and ...`)
Truthy(x) == x # None /\ x # ""

(***************************************************************************)
(* Regular expressions (Python's re): a syntax tree is a record [t, a].    *)
(*   cls  a: set of characters      lit  a: a string, matched as written   *)
(*   ilit a: a lower-case string, matched ignoring case (re.IGNORECASE)    *)
(*   cat  a: sequence of trees      alt  a: sequence of trees, a|b         *)
(*   opt  a: tree, x?     plus a: tree, x+     star a: tree, x-star        *)
(*   grp  a: [k, r], capturing group number k around r                     *)
(*   wb   \b                                                               *)
(* All quantifiers of the source's patterns are greedy.  A matcher state   *)
(* is [pos, g]: pos characters consumed, g[k] = <<start, end>> of group k  *)
(* (<<-1, -1>> while unset).  Run lists the states in which r can end,     *)
(* in the order a backtracking matcher reaches them: the first is the      *)
(* match re reports.                                                       *)
(*                                                                         *)
(* A value that is used several times is bound once, as an assignment     *)
(* binds it:  CHOOSE y \in { F(x) : x \in {e} } : TRUE  is                  *)
(* LET x == e IN F(x), with e evaluated once.                              *)
(***************************************************************************)
Cls(set) == [t |-> "cls", a |-> set]
Lit(str) == [t |-> "lit", a |-> str]
ILit(str) == [t |-> "ilit", a |-> str]
Cat(rs) == [t |-> "cat", a |-> rs]
Alt(rs) == [t |-> "alt", a |-> rs]
Opt(r) == [t |-> "opt", a |-> r]
Plus(r) == [t |-> "plus", a |-> r]
Star(r) == [t |-> "star", a |-> r]
Grp(k, r) == [t |-> "grp", a |-> [k |-> k, r |-> r]]
WB == [t |-> "wb", a |-> 0]
\* x{n} and x{n,}
Rep(r, n) == Cat([i \in 1..n |-> r])
RepAtLeast(r, n) == Cat([i \in 1..n |-> r] \o << Star(r) >>)

NoGroups == << <<-1, -1>>, <<-1, -1>> >>
StartAt(p) == [pos |-> p, g |-> NoGroups]

IsWordAt(s, i) == i >= 1 /\ i <= Len(s) /\ Ch(s, i) \in WordChar

RECURSIVE Run(_, _, _)
RECURSIVE RunRange(_, _, _, _, _)
RECURSIVE RunCat(_, _, _)
RECURSIVE RunAlt(_, _, _)
RECURSIVE RunPlus(_, _, _, _)

\* the states sts[lo..hi] continued through r, in order
RunRange(r, s, sts, lo, hi) ==
  IF lo > hi THEN << >>
  ELSE IF lo = hi THEN Run(r, s, sts[lo])
  ELSE RunRange(r, s, sts, lo, (lo + hi) \div 2)
       \o RunRange(r, s, sts, (lo + hi) \div 2 + 1, hi)

\* every state of sts continued through r, in order
RunAll(r, s, sts) == RunRange(r, s, sts, 1, Len(sts))

RunCat(rs, s, sts) ==
  IF rs = << >> THEN sts
  ELSE RunCat(Tail(rs), s, RunAll(Head(rs), s, sts))

RunAlt(rs, s, st) ==
  IF rs = << >> THEN << >>
  ELSE Run(Head(rs), s, st) \o RunAlt(Tail(rs), s, st)

\* greedy x+: after one x (the states xs), more of it is tried before stopping
RunPlus(r, s, xs, p0) ==
  IF xs = << >> THEN << >>
  ELSE (IF Head(xs).pos > p0 THEN Run(r, s, Head(xs)) ELSE << >>)
       \o << Head(xs) >> \o RunPlus(r, s, Tail(xs), p0)

\* how many characters of s from offset p on are in the class
ClassRun(set, s, p) ==
  CHOOSE n \in 0..(Len(s) - p) :
    /\ p + n = Len(s) \/ Ch(s, p + n + 1) \notin set
    /\ \A k \in 1..n : Ch(s, p + k) \in set

\* greedy x+ for a class x: the longest run first, then each shorter one
ClassPlus(st, n) == [k \in 1..n |-> [st EXCEPT !.pos = @ + (n - k + 1)]]

Run(r, s, st) ==
  CASE r.t = "cls" ->
         IF st.pos < Len(s) /\ Ch(s, st.pos + 1) \in r.a
           THEN << [st EXCEPT !.pos = @ + 1] >> ELSE << >>
    [] r.t = "lit" ->
         IF Slice(s, st.pos, st.pos + Len(r.a)) = r.a
           THEN << [st EXCEPT !.pos = @ + Len(r.a)] >> ELSE << >>
    [] r.t = "ilit" ->
         IF ToLower(Slice(s, st.pos, st.pos + Len(r.a))) = r.a
           THEN << [st EXCEPT !.pos = @ + Len(r.a)] >> ELSE << >>
    [] r.t = "cat" -> RunCat(r.a, s, << st >>)
    [] r.t = "alt" -> RunAlt(r.a, s, st)
    [] r.t = "opt" -> Run(r.a, s, st) \o << st >>
    [] r.t = "plus" ->
         IF r.a.t = "cls" THEN ClassPlus(st, ClassRun(r.a.a, s, st.pos))
         ELSE RunPlus(r, s, Run(r.a, s, st), st.pos)
    [] r.t = "star" -> Run(Plus(r.a), s, st) \o << st >>
    [] r.t = "grp" ->
         CHOOSE tagged \in
           { [k \in 1..Len(ends) |->
                [ends[k] EXCEPT !.g[r.a.k] = <<st.pos, ends[k].pos>>]] :
             ends \in { Run(r.a.r, s, st) } } : TRUE
    [] r.t = "wb" ->
         IF IsWordAt(s, st.pos) # IsWordAt(s, st.pos + 1) THEN << st >> ELSE << >>

\* a match object: found, the span [start, end) and the groups' texts
NoMatch == [found |-> FALSE, start |-> 0, end |-> 0, g |-> << None, None >>]

GroupText(s, span) == IF span[1] < 0 THEN None ELSE Slice(s, span[1], span[2])

MatchObj(s, p, st) ==
  [found |-> TRUE, start |-> p, end |-> st.pos,
   g |-> << GroupText(s, st.g[1]), GroupText(s, st.g[2]) >>]

\* re.match(r, s): a match starting at the first character (s need not end there)
ReMatch(r, s) ==
  CHOOSE m \in { IF ends = << >> THEN NoMatch ELSE MatchObj(s, 0, ends[1]) :
                 ends \in { Run(r, s, StartAt(0)) } } : TRUE

\* the match of the leftmost of the hits <<offset, end states>>
LeftmostMatch(s, hits) ==
  CHOOSE m \in { MatchObj(s, h[1], h[2][1]) :
                 h \in { x \in hits : \A y \in hits : x[1] <= y[1] } } : TRUE

\* the leftmost match starting at offset p or later
SearchFrom(r, s, p) ==
  CHOOSE m \in
    { IF hits = {} THEN NoMatch ELSE LeftmostMatch(s, hits) :
      hits \in { { h \in { << q, Run(r, s, StartAt(q)) >> : q \in p..Len(s) } :
                   h[2] # << >> } } } : TRUE

\* re.search(r, s)
ReSearch(r, s) == SearchFrom(r, s, 0)

\* re.findall(r, s) for a pattern without capturing groups: the matched texts,
\* scanning on from the end of each match (one further after an empty match)
RECURSIVE FindAllFrom(_, _, _)
FindAllFrom(r, s, p) ==
  CHOOSE all \in
    { IF ~m.found THEN << >>
      ELSE << Slice(s, m.start, m.end) >>
           \o FindAllFrom(r, s, IF m.end > m.start THEN m.end ELSE m.end + 1) :
      m \in { SearchFrom(r, s, p) } } : TRUE

ReFindAll(r, s) == FindAllFrom(r, s, 0)

\* re.sub(r, "", s): every match removed
RECURSIVE SubFrom(_, _, _)
SubFrom(r, s, p) ==
  CHOOSE out \in
    { IF ~m.found THEN Slice(s, p, Len(s))
      ELSE Slice(s, p, m.start)
           \o (IF m.end > m.start THEN SubFrom(r, s, m.end)
               ELSE Slice(s, m.end, m.end + 1) \o SubFrom(r, s, m.end + 1)) :
      m \in { SearchFrom(r, s, p) } } : TRUE

ReSubEmpty(r, s) == SubFrom(r, s, 0)

\* match.group(0)
Group0(s, m) == Slice(s, m.start, m.end)

(***************************************************************************)
(* The patterns of extract_clinic_data.  \s is Space, \d is Digit.         *)
(***************************************************************************)
Sp == Cls(Space)
D == Cls(Digit)
Sep == Cls({"-", ".", " "})                            \* [-.\s]
\* [A-Z][a-z]+\s+[A-Z][a-z]+
FirstLast ==
  Cat(<< Cls(Upper), Plus(Cls(Lower)), Plus(Sp), Cls(Upper), Plus(Cls(Lower)) >>)
Degrees == << "MD", "DO", "DDS", "DMD", "DC", "DPM", "DVM", "VMD", "PhD" >>
LitAlt(strs) == Alt([i \in 1..Len(strs) |-> Lit(strs[i])])

\* py.py: r'Dr\.\s+([A-Z][a-z]+\s+[A-Z][a-z]+)',
\*        r'([A-Z][a-z]+\s+[A-Z][a-z]+),\s+(?:MD|DO|DDS|DMD|DC|DPM|DVM|VMD|PhD)',
\*        r'([A-Z][a-z]+\s+[A-Z][a-z]+)\s+(?:MD|DO|DDS|DMD|DC|DPM|DVM|VMD|PhD)'
doctor_patterns ==
  << Cat(<< Lit("Dr."), Plus(Sp), Grp(1, FirstLast) >>),
     Cat(<< Grp(1, FirstLast), Lit(","), Plus(Sp), LitAlt(Degrees) >>),
     Cat(<< Grp(1, FirstLast), Plus(Sp), LitAlt(Degrees) >>) >>

\* py.py: r'(MD|DO|DDS|DMD|DC|DPM|DVM|VMD|PhD|FACP|FACOG|FACS|FAAP|[A-Z\.]+)'
credentials_pattern ==
  Grp(1, Alt([i \in 1..Len(Degrees) |-> Lit(Degrees[i])]
             \o << Lit("FACP"), Lit("FACOG"), Lit("FACS"), Lit("FAAP"),
                   Plus(Cls(Upper \cup {"."})) >>))

\* py.py: r'([A-Z][a-zA-Z\s\.]+),\s*([A-Z]{2})\s*\d{5}' and r'([A-Z][a-zA-Z\s\.]+),\s*([A-Z]{2})'
CityState(cityChars) ==
  Cat(<< Grp(1, Cat(<< Cls(Upper), Plus(Cls(cityChars)) >>)), Lit(","), Star(Sp),
         Grp(2, Rep(Cls(Upper), 2)) >>)
\* the two patterns in the other order: the plain form is tried first
PlainPatternFirst ==
  << CityState(Upper \cup Lower \cup Space \cup {"."}),
     Cat(<< CityState(Upper \cup Lower \cup Space \cup {"."}), Star(Sp), Rep(D, 5) >>) >>

city_state_patterns ==
  << Cat(<< CityState(Upper \cup Lower \cup Space \cup {"."}), Star(Sp), Rep(D, 5) >>),
     CityState(Upper \cup Lower \cup Space \cup {"."}) >>

\* py.py: r'(?:\+?1[-.\s]?)?(?:\(?\d{3}\)?[-.\s]?)?\d{3}[-.\s]?\d{4}'
phone_pattern ==
  Cat(<< Opt(Cat(<< Opt(Lit("+")), Lit("1"), Opt(Sep) >>)),
         Opt(Cat(<< Opt(Lit("(")), Rep(D, 3), Opt(Lit(")")), Opt(Sep) >>)),
         Rep(D, 3), Opt(Sep), Rep(D, 4) >>)

\* py.py: r'\b[A-Za-z0-9._%+-]+@[A-Za-z0-9.-]+\.[A-Z|a-z]{2,}\b'
email_pattern ==
  Cat(<< WB, Plus(Cls(Upper \cup Lower \cup Digit \cup {".", "_", "%", "+", "-"})),
         Lit("@"), Plus(Cls(Upper \cup Lower \cup Digit \cup {".", "-"})), Lit("."),
         RepAtLeast(Cls(Upper \cup Lower \cup {"|"}), 2), WB >>)

\* py.py: r'(Home\s*\|\s*)|(\s*\|\s*Home)'
home_pattern ==
  Alt(<< Grp(1, Cat(<< Lit("Home"), Star(Sp), Lit("|"), Star(Sp) >>)),
         Grp(2, Cat(<< Star(Sp), Lit("|"), Star(Sp), Lit("Home") >>)) >>)

\* py.py: r'\s*\|\s*' + re.escape(comp), flags=re.IGNORECASE; comp is lower case
competitor_suffix_pattern(comp) == Cat(<< Star(Sp), Lit("|"), Star(Sp), ILit(comp) >>)

\* Scrap.py: r'(?:Dr\.|MD|DO|DDS|DMD|DPM|DC|DVM|VMD|PhD|NP|PA)(?:\s*,\s*[A-Z]+)*'
Scrap_credentials_pattern ==
  Cat(<< LitAlt(<< "Dr.", "MD", "DO", "DDS", "DMD", "DPM", "DC", "DVM", "VMD", "PhD",
                   "NP", "PA" >>),
         Star(Cat(<< Star(Sp), Lit(","), Star(Sp), Plus(Cls(Upper)) >>)) >>)

\* Scrap.py: r'([A-Z][a-z]+\s+[A-Z][a-z]+)\s+' + credentials_pattern
Scrap_name_pattern == Cat(<< Grp(1, FirstLast), Plus(Sp), Scrap_credentials_pattern >>)

\* Scrap.py: r'([A-Z][a-zA-Z\s]+),\s*([A-Z]{2})'
Scrap_city_state_pattern == CityState(Upper \cup Lower \cup Space)

\* Scrap.py: r'(?:\+1|1)?[-.\s]?\(?\d{3}\)?[-.\s]?\d{3}[-.\s]?\d{4}'
Scrap_phone_pattern ==
  Cat(<< Opt(Alt(<< Lit("+1"), Lit("1") >>)), Opt(Sep), Opt(Lit("(")), Rep(D, 3),
         Opt(Lit(")")), Opt(Sep), Rep(D, 3), Opt(Sep), Rep(D, 4) >>)

\* Scrap.py: r'[a-zA-Z0-9._%+-]+@[a-zA-Z0-9.-]+\.[a-zA-Z]{2,}'
Scrap_email_pattern ==
  Cat(<< Plus(Cls(Upper \cup Lower \cup Digit \cup {".", "_", "%", "+", "-"})),
         Lit("@"), Plus(Cls(Upper \cup Lower \cup Digit \cup {".", "-"})), Lit("."),
         RepAtLeast(Cls(Upper \cup Lower), 2) >>)

(***************************************************************************)
(* Pages.  requests.get either raises (FetchError) or returns a page; the  *)
(* page is the document BeautifulSoup parses it to:                        *)
(*   title: NoTitle, or [string |-> s] (s = None for a <title> without a   *)
(*          single text child: Tag.string is None then)                    *)
(*   elems: the elements in document order, each [tag, class, href, text]  *)
(*          with class and href None when the attribute is missing         *)
(***************************************************************************)
FetchError == [error |-> TRUE]
NoTitle == [absent |-> TRUE]

Elem(tag, class, href, text) == [tag |-> tag, class |-> class, href |-> href, text |-> text]
Page(title, elems) == [error |-> FALSE, title |-> title, elems |-> elems]

TitleText(doc) ==
  IF doc.title = NoTitle \/ doc.title.string = None THEN "" ELSE doc.title.string

\* element.get_text(), one element after the other
RECURSIVE ConcatText(_)
ConcatText(elems) ==
  IF elems = << >> THEN "" ELSE Head(elems).text \o ConcatText(Tail(elems))

\* soup.get_text(): every text of the document, the title's first
GetText(doc) == TitleText(doc) \o ConcatText(doc.elems)

\* response.text: the markup the document was parsed from
RenderElem(e) ==
  "<" \o e.tag
      \o (IF e.class = None THEN "" ELSE " class=\"" \o e.class \o "\"")
      \o (IF e.href = None THEN "" ELSE " href=\"" \o e.href \o "\"")
      \o ">" \o e.text \o "</" \o e.tag \o ">"

RECURSIVE RenderElems(_)
RenderElems(elems) ==
  IF elems = << >> THEN "" ELSE RenderElem(Head(elems)) \o RenderElems(Tail(elems))

ResponseText(doc) ==
  (IF doc.title = NoTitle THEN "" ELSE "<title>" \o TitleText(doc) \o "</title>")
  \o RenderElems(doc.elems)

\* class_=lambda c: c and any(x in c.lower() for x in needles)
ClassHasAny(c, needles) == Truthy(c) /\ \E x \in needles : Contains(x, ToLower(c))

\* soup.find_all(tags, class_=lambda ...)
FindAllByClass(doc, tags, needles) ==
  LET Test(e) == e.tag \in tags /\ ClassHasAny(e.class, needles)
  IN SelectSeq(doc.elems, Test)

\* soup.find_all(tag); soup.find(tag) is its first element
FindAllByTag(doc, tag) == LET Test(e) == e.tag = tag IN SelectSeq(doc.elems, Test)

\* soup.find_all('a', href=lambda h: h and h.startswith(prefix))
FindLinks(doc, prefix) ==
  LET Test(e) == e.tag = "a" /\ Truthy(e.href) /\ StartsWith(e.href, prefix)
  IN SelectSeq(doc.elems, Test)

(***************************************************************************)
(* WebsiteScraper.__init__ and check_competitor_presence (py.py, Scrap.py: *)
(* the same code but for the timeout and the logging call).                *)
(***************************************************************************)
\* self.competitors = [comp.lower() for comp in competitors]
InitCompetitors(names) == [k \in 1..Len(names) |-> ToLower(names[k])]

\* the loop without its early return: the last competitor present wins
RECURSIVE LastCompetitorIn(_, _)
LastCompetitorIn(comps, texts) ==
  IF comps = << >> THEN None
  ELSE IF \E k \in 1..Len(texts) : Contains(comps[Len(comps)], texts[k])
    THEN comps[Len(comps)]
  ELSE LastCompetitorIn(SubSeq(comps, 1, Len(comps) - 1), texts)

\* for competitor in self.competitors: if competitor in t1 or competitor in t2: return it
RECURSIVE FirstCompetitorIn(_, _)
FirstCompetitorIn(comps, texts) ==
  IF comps = << >> THEN None
  ELSE IF \E k \in 1..Len(texts) : Contains(Head(comps), texts[k]) THEN Head(comps)
  ELSE FirstCompetitorIn(Tail(comps), texts)

\* footer = soup.find('footer'); if footer: ... the loop over footer_text
CompetitorInFooter(comps, footers) ==
  IF footers = << >> THEN None
  ELSE FirstCompetitorIn(comps, << ToLower(footers[1].text) >>)

\* `return True, None`: the result without the competitor
ResultWithoutCompetitor(found, competitor) ==
  [found |-> found, competitor |-> None, raised |-> FALSE, logged |-> FALSE]

\* the result tuple (has_competitor, competitor); raised: an exception left the
\* try block; logged: the except clause reported it (print / logging.error)
Result(found, competitor) ==
  [found |-> found, competitor |-> competitor, raised |-> FALSE, logged |-> FALSE]
Raised == [found |-> FALSE, competitor |-> None, raised |-> TRUE, logged |-> FALSE]

\* the try block without `or competitor in page_html`
CheckVisibleTextOnly(comps, page) ==
  IF page = FetchError THEN Raised
  ELSE CHOOSE result \in
         { IF general # None THEN Result(TRUE, general)
           ELSE IF in_footer # None THEN Result(TRUE, in_footer)
           ELSE Result(FALSE, None) :
           general \in { FirstCompetitorIn(comps, << ToLower(GetText(page)) >>) },
           in_footer \in { CompetitorInFooter(comps, FindAllByTag(page, "footer")) } } : TRUE

\* the try block of check_competitor_presence
CheckCompetitorTry(comps, page) ==
  IF page = FetchError THEN Raised
  ELSE CHOOSE result \in
         { IF general # None THEN Result(TRUE, general)
           ELSE IF in_footer # None THEN Result(TRUE, in_footer)
           ELSE Result(FALSE, None) :
           general \in { FirstCompetitorIn(comps, << ToLower(GetText(page)),
                                                     ToLower(ResponseText(page)) >>) },
           in_footer \in { CompetitorInFooter(comps, FindAllByTag(page, "footer")) } } : TRUE

\* check_competitor_presence without its except clause
CheckReraises(r) == r

\* `except Exception as e: ... return False, None`
ExceptReturnsNotFound(r) ==
  IF r.raised THEN [Result(FALSE, None) EXCEPT !.logged = TRUE] ELSE r

\* check_competitor_presence
CheckCompetitorPresence(comps, page) == ExceptReturnsNotFound(CheckCompetitorTry(comps, page))

(***************************************************************************)
(* extract_clinic_data.  clinic_data is the dict the function fills; what  *)
(* was assigned before an exception stays in the dict the except clause    *)
(* returns.  An outcome is [raised, clinic_data, logged].                  *)
(***************************************************************************)
ClinicData(unset, url, competitor) ==
  [clinic_name |-> unset, provider_name |-> unset, credentials |-> unset,
   website_url |-> url, city_state |-> unset, contact_info |-> unset,
   website_provider |-> competitor]

Outcome(raised, clinic_data) ==
  [raised |-> raised, clinic_data |-> clinic_data, logged |-> FALSE]

\* extract_clinic_data without its except clause
ExtractReraises(outcome) == outcome

\* `except Exception as e: logging.error(...); return clinic_data`
ExceptReturnsData(outcome) ==
  IF outcome.raised THEN [Outcome(FALSE, outcome.clinic_data) EXCEPT !.logged = TRUE]
  ELSE outcome

\* for pattern in patterns: match = re.search(pattern, text); if match: ... break
RECURSIVE FirstPatternMatch(_, _)
FirstPatternMatch(patterns, text) ==
  IF patterns = << >> THEN NoMatch
  ELSE CHOOSE first \in
         { IF match.found THEN match ELSE FirstPatternMatch(Tail(patterns), text) :
           match \in { ReSearch(Head(patterns), text) } } : TRUE

\* h1_tags[0].get_text().strip() when there is a heading
FirstHeading(h1_tags, unset) == IF h1_tags # << >> THEN Strip(h1_tags[1].text) ELSE unset

\* contact_info = sep.join(contact_info) when the list is not empty
JoinOrUnset(list, sep, unset) == IF list # << >> THEN Join(sep, list) ELSE unset

(* ------------------------------ py.py ---------------------------------- *)
\* for comp in self.competitors: clinic_name = re.sub(r'\s*\|\s*' + re.escape(comp), '', ...)
RECURSIVE RemoveCompetitors(_, _)
RemoveCompetitors(comps, name) ==
  IF comps = << >> THEN name
  ELSE RemoveCompetitors(Tail(comps),
                         ReSubEmpty(competitor_suffix_pattern(Head(comps)), name))

\* py.py 128-141, for a title whose .string is a str
py_clinic_name(comps, doc) ==
  CHOOSE cleaned \in
    { IF name # "" THEN RemoveCompetitors(comps, ReSubEmpty(home_pattern, name)) ELSE name :
      name \in { IF doc.title # NoTitle THEN Strip(doc.title.string)
                 ELSE FirstHeading(FindAllByTag(doc, "h1"), "") } } : TRUE

CredentialWindow == 50

NoProvider(unset) == [provider_name |-> unset, credentials |-> unset]

\* the credentials searched from the start of the text, doctor or not
CredentialsWithoutName(text) ==
  CHOOSE provider \in
    { [provider_name |-> IF match.found THEN match.g[1] ELSE "",
       credentials |-> IF cred_match.found THEN cred_match.g[1] ELSE ""] :
      match \in { FirstPatternMatch(doctor_patterns, text) },
      cred_match \in { ReSearch(credentials_pattern, Slice(text, 0, CredentialWindow)) } } : TRUE

\* py.py 160-167 and 174-181: the pattern loop over one text
py_provider_in(text) ==
  CHOOSE provider \in
    { IF ~match.found THEN NoProvider("")
      ELSE CHOOSE named \in
             { [provider_name |-> match.g[1],
                credentials |-> IF cred_match.found THEN cred_match.g[1] ELSE ""] :
               cred_match \in
                 { ReSearch(credentials_pattern,
                            Slice(text, match.end, match.end + CredentialWindow)) } } : TRUE :
      match \in { FirstPatternMatch(doctor_patterns, text) } } : TRUE

\* py.py 158-169: for section in about_sections, until a provider_name is set
RECURSIVE py_provider_in_sections(_)
py_provider_in_sections(sections) ==
  IF sections = << >> THEN NoProvider("")
  ELSE CHOOSE provider \in
         { IF found.provider_name # "" THEN found
           ELSE py_provider_in_sections(Tail(sections)) :
           found \in { py_provider_in(Head(sections).text) } } : TRUE

\* py.py 145-181
py_provider(doc) ==
  CHOOSE provider \in
    { IF in_sections.provider_name # "" THEN in_sections ELSE py_provider_in(GetText(doc)) :
      in_sections \in
        { py_provider_in_sections(
            FindAllByClass(doc, {"div", "section", "article"},
                           {"doctor", "provider", "team", "about", "staff", "physician"})) }
    } : TRUE

\* py.py 195-199 and 206-210
py_city_state_in(text) ==
  CHOOSE city_state \in
    { IF match.found THEN Strip(match.g[1]) \o ", " \o match.g[2] ELSE "" :
      match \in { FirstPatternMatch(city_state_patterns, text) } } : TRUE

\* py.py 193-201
RECURSIVE py_city_state_in_elements(_)
py_city_state_in_elements(elements) ==
  IF elements = << >> THEN ""
  ELSE CHOOSE city_state \in
         { IF found # "" THEN found ELSE py_city_state_in_elements(Tail(elements)) :
           found \in { py_city_state_in(Head(elements).text) } } : TRUE

\* py.py 184-210
py_city_state(doc) ==
  CHOOSE city_state \in
    { IF in_elements # "" THEN in_elements ELSE py_city_state_in(GetText(doc)) :
      in_elements \in
        { py_city_state_in_elements(
            FindAllByClass(doc, {"address", "div", "p", "footer", "span"},
                           {"address", "location", "contact", "footer"})) } } : TRUE

\* py.py 221-222
contact_elements(doc) ==
  FindAllByClass(doc, {"div", "p", "span", "a", "section"},
                 {"contact", "phone", "email", "tel"})

\* py.py 224-229: re.findall over each contact element, extended in order
RECURSIVE FindAllInElements(_, _)
FindAllInElements(pattern, elements) ==
  IF elements = << >> THEN << >>
  ELSE ReFindAll(pattern, Head(elements).text)
       \o FindAllInElements(pattern, Tail(elements))

\* py.py 232-244: the link targets whose start matches the pattern, whole
RECURSIVE LinkTargets(_, _, _)
LinkTargets(pattern, links, prefix) ==
  IF links = << >> THEN << >>
  ELSE CHOOSE targets \in
         { (IF ReMatch(pattern, target).found THEN << target >> ELSE << >>)
           \o LinkTargets(pattern, Tail(links), prefix) :
           target \in { Strip(Remove(Head(links).href, prefix)) } } : TRUE

\* the three places a phone or an email is looked for
PhonesInContactElements(doc) == FindAllInElements(phone_pattern, contact_elements(doc))
EmailsInContactElements(doc) == FindAllInElements(email_pattern, contact_elements(doc))
PhonesInLinks(doc) == LinkTargets(phone_pattern, FindLinks(doc, "tel:"), "tel:")
EmailsInLinks(doc) == LinkTargets(email_pattern, FindLinks(doc, "mailto:"), "mailto:")
PhonesInFullText(doc) == ReFindAll(phone_pattern, GetText(doc))
EmailsInFullText(doc) == ReFindAll(email_pattern, GetText(doc))

\* the tel: links looked at before the contact elements
PhoneLinksFirst(doc) ==
  CHOOSE numbers \in
    { IF collected = << >> THEN PhonesInFullText(doc) ELSE collected :
      collected \in { PhonesInLinks(doc) \o PhonesInContactElements(doc) } } : TRUE

\* py.py 217-249: phone_numbers when the contact info is formatted
phone_numbers(doc) ==
  CHOOSE numbers \in
    { IF collected = << >> THEN PhonesInFullText(doc) ELSE collected :
      collected \in { PhonesInContactElements(doc) \o PhonesInLinks(doc) } } : TRUE

\* py.py 218-253: emails when the contact info is formatted
emails(doc) ==
  CHOOSE addresses \in
    { IF collected = << >> THEN EmailsInFullText(doc) ELSE collected :
      collected \in { EmailsInContactElements(doc) \o EmailsInLinks(doc) } } : TRUE

\* re.sub(r'[^\d]', '', phone)
RECURSIVE OnlyDigits(_)
OnlyDigits(s) ==
  IF Len(s) = 0 THEN ""
  ELSE (IF Ch(s, 1) \in Digit THEN Ch(s, 1) ELSE "") \o OnlyDigits(SubSeq(s, 2, Len(s)))

PhoneDigits == 10

\* `contact_info.append(phone)` in the else branch: the stripped digits
FormatPhoneAppendsDigits(first) ==
  LET phone == OnlyDigits(first)
  IN IF Len(phone) = PhoneDigits
       THEN "(" \o Slice(phone, 0, 3) \o ") " \o Slice(phone, 3, 6) \o "-"
            \o Slice(phone, 6, Len(phone))
       ELSE phone

\* py.py 259-265: what is appended to contact_info for phone_numbers[0]
FormatPhone(first) ==
  LET phone == OnlyDigits(first)
  IN IF Len(phone) = PhoneDigits
       THEN "(" \o Slice(phone, 0, 3) \o ") " \o Slice(phone, 3, 6) \o "-"
            \o Slice(phone, 6, Len(phone))
       ELSE first

\* py.py 256-268: the list contact_info
py_contact_list(phones, addresses) ==
  (IF phones # << >> THEN << FormatPhone(phones[1]) >> ELSE << >>)
  \o (IF addresses # << >> THEN << addresses[1] >> ELSE << >>)

\* py.py 212-271
py_contact_info(doc) == JoinOrUnset(py_contact_list(phone_numbers(doc), emails(doc)), " | ", "")

\* py.py 110-273: the try block.  requests.get raises on a failed fetch, and
\* soup.title.string.strip() raises AttributeError when .string is None
py_extract_try(comps, url, competitor, page) ==
  IF page = FetchError THEN Outcome(TRUE, ClinicData("", url, competitor))
  ELSE IF page.title # NoTitle /\ page.title.string = None
         THEN Outcome(TRUE, ClinicData("", url, competitor))
  ELSE CHOOSE outcome \in
         { Outcome(FALSE,
             [ClinicData("", url, competitor) EXCEPT
                !.clinic_name = py_clinic_name(comps, page),
                !.provider_name = provider.provider_name,
                !.credentials = provider.credentials,
                !.city_state = py_city_state(page),
                !.contact_info = py_contact_info(page)]) :
           provider \in { py_provider(page) } } : TRUE

\* py.py 99-277
py_extract_clinic_data(comps, url, competitor, page) ==
  ExceptReturnsData(py_extract_try(comps, url, competitor, page))

(* ----------------------------- Scrap.py -------------------------------- *)
\* Scrap.py 120-126
Scrap_clinic_name(doc) ==
  LET title == IF doc.title # NoTitle THEN doc.title.string ELSE None
  IN IF Truthy(title) THEN Strip(BeforeFirst(title, "|"))
     ELSE FirstHeading(FindAllByTag(doc, "h1"), None)

\* Scrap.py 134-143: the first section with a credential decides, name or not
RECURSIVE Scrap_provider_in_sections(_)
Scrap_provider_in_sections(sections) ==
  IF sections = << >> THEN NoProvider(None)
  ELSE CHOOSE provider \in
         { IF ~credentials_match.found THEN Scrap_provider_in_sections(Tail(sections))
           ELSE IF name_match.found
             THEN [provider_name |-> name_match.g[1],
                   credentials |-> Group0(Head(sections).text, credentials_match)]
           ELSE NoProvider(None) :
           credentials_match \in { ReSearch(Scrap_credentials_pattern, Head(sections).text) },
           name_match \in { ReSearch(Scrap_name_pattern, Head(sections).text) } } : TRUE

\* Scrap.py 130-143
Scrap_provider(doc) ==
  Scrap_provider_in_sections(
    FindAllByClass(doc, {"div", "section"}, {"about", "doctor", "team"}))

\* Scrap.py 153-158
RECURSIVE Scrap_city_state_in_elements(_)
Scrap_city_state_in_elements(elements) ==
  IF elements = << >> THEN None
  ELSE CHOOSE city_state \in
         { IF city_state_match.found
             THEN city_state_match.g[1] \o ", " \o city_state_match.g[2]
           ELSE Scrap_city_state_in_elements(Tail(elements)) :
           city_state_match \in
             { ReSearch(Scrap_city_state_pattern, Head(elements).text) } } : TRUE

\* Scrap.py 147-158
Scrap_city_state(doc) ==
  Scrap_city_state_in_elements(
    FindAllByClass(doc, {"address", "div", "p"}, {"address", "location"}))

\* Scrap.py 165-172: the list contact_info, searched in the raw markup
Scrap_contact_list(text) ==
  CHOOSE list \in
    { (IF phone_match.found THEN << Group0(text, phone_match) >> ELSE << >>)
      \o (IF email_match.found THEN << Group0(text, email_match) >> ELSE << >>) :
      phone_match \in { ReSearch(Scrap_phone_pattern, text) },
      email_match \in { ReSearch(Scrap_email_pattern, text) } } : TRUE

\* Scrap.py 160-175
Scrap_contact_info(doc) == JoinOrUnset(Scrap_contact_list(ResponseText(doc)), ", ", None)

\* Scrap.py 102-177: the try block; only requests.get raises
Scrap_extract_try(url, competitor, page) ==
  IF page = FetchError THEN Outcome(TRUE, ClinicData(None, url, competitor))
  ELSE CHOOSE outcome \in
         { Outcome(FALSE,
             [ClinicData(None, url, competitor) EXCEPT
                !.clinic_name = Scrap_clinic_name(page),
                !.provider_name = provider.provider_name,
                !.credentials = provider.credentials,
                !.city_state = Scrap_city_state(page),
                !.contact_info = Scrap_contact_info(page)]) :
           provider \in { Scrap_provider(page) } } : TRUE

\* Scrap.py 91-181
Scrap_extract_clinic_data(url, competitor, page) ==
  ExceptReturnsData(Scrap_extract_try(url, competitor, page))

\* extract_clinic_data of the variant v ("py": py.py, "Scrap": Scrap.py)
ExtractClinicData(v, comps, url, competitor, page) ==
  IF v = "py" THEN py_extract_clinic_data(comps, url, competitor, page)
  ELSE Scrap_extract_clinic_data(url, competitor, page)

(***************************************************************************)
(* The URL loaders.  A file is unreadable (open or json.load raises), or   *)
(* it has a content: the CSV rows (each a tuple of cells) or the JSON      *)
(* items (records) the loop gets.  A malformed file gives its content and  *)
(* then makes the loop raise: the bytes after these rows are not UTF-8, or *)
(* the next JSON item is a number, for which `'url' in item` raises.       *)
(***************************************************************************)
File(content) == [readable |-> TRUE, content |-> content, malformed |-> FALSE]
Malformed(content) == [readable |-> TRUE, content |-> content, malformed |-> TRUE]
Unreadable == [readable |-> FALSE]

\* what a loader's try block did: the list urls it built and whether it raised
Loaded(loaded_urls, raised) == [urls |-> loaded_urls, raised |-> raised]

\* `return urls` in the except clause: what was read before the failure
ExceptReturnsUrls(try) == try.urls

\* py.py 55-58, Scrap.py 48-50: except Exception: ... return []
ExceptReturnsEmpty(try) == IF try.raised THEN << >> ELSE try.urls

\* Scrap.py 39-44: the rows of the reader, in order
RECURSIVE CsvUrls(_)
CsvUrls(rows) ==
  IF rows = << >> THEN << >>
  ELSE (IF Head(rows) = << >> THEN << >>
        ELSE IF StartsWith(Head(rows)[1], "http") THEN << Strip(Head(rows)[1]) >>
        ELSE << "http://" \o Strip(Head(rows)[1]) >>)
       \o CsvUrls(Tail(rows))

\* Scrap.py 25-50
load_urls_from_csv(csv_file) ==
  ExceptReturnsEmpty(IF csv_file.readable
                       THEN Loaded(CsvUrls(csv_file.content), csv_file.malformed)
                       ELSE Loaded(<< >>, TRUE))

\* py.py 48-50: for item in data: if 'url' in item: urls.append(item['url'])
RECURSIVE JsonUrls(_)
JsonUrls(data) ==
  IF data = << >> THEN << >>
  ELSE (IF "url" \in DOMAIN Head(data) THEN << Head(data).url >> ELSE << >>)
       \o JsonUrls(Tail(data))

\* py.py 33-58
load_urls_from_json(json_file) ==
  ExceptReturnsEmpty(IF json_file.readable
                       THEN Loaded(JsonUrls(json_file.content), json_file.malformed)
                       ELSE Loaded(<< >>, TRUE))

\* the loader main() of the variant calls
LoadUrls(v, input_file) ==
  IF v = "py" THEN load_urls_from_json(input_file) ELSE load_urls_from_csv(input_file)

(***************************************************************************)
(* process_urls.  One pass of the loop is                                  *)
(*   [index, url, fetched, check, errors, appended, slept, raised]         *)
(* index: i of enumerate; url: the URL after `Fix URL if needed` (None if  *)
(* that statement raised); fetched: the URLs handed to requests.get, in    *)
(* order; check: what check_competitor_presence returned; errors: which    *)
(* except clauses reported an error; appended: the records appended to     *)
(* results; slept: time.sleep was called; raised: an exception left the    *)
(* loop body.                                                              *)
(***************************************************************************)
\* requests.get raises MissingSchema / InvalidSchema unless the URL is an
\* http:// or https:// URL; for such a URL the network decides
Fetchable(url) ==
  \E scheme \in {"http://", "https://"} :
    StartsWith(ToLower(url), scheme) /\ Len(url) > Len(scheme)

Fetch(url, page) == IF Fetchable(url) THEN page ELSE FetchError

\* py.py 298-299
FixUrl(url) == IF ~StartsWith(url, "http") THEN "http://" \o url ELSE url

PyPacing == 5
ScrapPacing == 10

\* py.py 314: (i + 1) % 5 == 0;  Scrap.py 206: i % 10 == 0 and i > 0
Sleeps(v, idx) ==
  IF v = "py" THEN (idx + 1) % PyPacing = 0 ELSE idx % ScrapPacing = 0 /\ idx > 0

\* check_competitor_presence was not called
NotChecked == Result(FALSE, None)

Pass(idx, url, fetched, check, errors, appended, slept, raised) ==
  [index |-> idx, url |-> url, fetched |-> fetched, check |-> check, errors |-> errors,
   appended |-> appended, slept |-> slept, raised |-> raised]

\* extract_clinic_data given the document the check fetched: one request
ExtractedWithoutFetch(v, idx, url, check, extract) ==
  LET errors == (IF check.logged THEN << "check" >> ELSE << >>)
                \o (IF extract.logged THEN << "extract" >> ELSE << >>)
  IN IF extract.raised
       THEN Pass(idx, url, << url >>, check, errors, << >>, FALSE, TRUE)
     ELSE Pass(idx, url, << url >>, check, errors, << extract.clinic_data >>,
               Sleeps(v, idx), FALSE)

\* the loop body after extract_clinic_data returned or raised
Extracted(v, idx, url, check, extract) ==
  LET errors == (IF check.logged THEN << "check" >> ELSE << >>)
                \o (IF extract.logged THEN << "extract" >> ELSE << >>)
  IN IF extract.raised
       THEN Pass(idx, url, << url, url >>, check, errors, << >>, FALSE, TRUE)
     ELSE Pass(idx, url, << url, url >>, check, errors, << extract.clinic_data >>,
               Sleeps(v, idx), FALSE)

\* the loop body without `if has_competitor:`
CheckedWithoutIf(v, comps, idx, url, check, page2) ==
  IF check.raised THEN Pass(idx, url, << url >>, check, << >>, << >>, FALSE, TRUE)
  ELSE Extracted(v, idx, url, check,
                 ExtractClinicData(v, comps, url, check.competitor, Fetch(url, page2)))

\* the loop body after check_competitor_presence returned or raised
Checked(v, comps, idx, url, check, page2) ==
  IF check.raised THEN Pass(idx, url, << url >>, check, << >>, << >>, FALSE, TRUE)
  ELSE IF ~check.found
    THEN Pass(idx, url, << url >>, check,
              IF check.logged THEN << "check" >> ELSE << >>, << >>, Sleeps(v, idx), FALSE)
  ELSE Extracted(v, idx, url, check,
                 ExtractClinicData(v, comps, url, check.competitor, Fetch(url, page2)))

\* the loop body from the call of check_competitor_presence on
Handled(v, comps, idx, url, page1, page2) ==
  Checked(v, comps, idx, url, CheckCompetitorPresence(comps, Fetch(url, page1)), page2)

\* py.py 293-315, Scrap.py 197-207: the loop body for urls[i]; page1 and page2
\* are what the network answers to the two requests.  In py.py a url that is
\* no str makes url.startswith raise before anything is fetched
LoopBody(v, comps, idx, url, page1, page2) ==
  IF v = "py"
    THEN IF url = None
           THEN Pass(idx, None, << >>, NotChecked, << >>, << >>, FALSE, TRUE)
         ELSE Handled(v, comps, idx, FixUrl(url), page1, page2)
  ELSE Handled(v, comps, idx, url, page1, page2)

\* py.py 316-318: `except Exception as e` around the loop body; Scrap.py has none
LoopCatches(v) == v = "py"

\* what the pass reports, with the except clause of the loop
LoopErrors(v, pass) ==
  pass.errors \o (IF pass.raised /\ LoopCatches(v) THEN << "process" >> ELSE << >>)

\* results = [clinic_data]: the record of the site replaces the list
ReplaceResults(rs, appended) == IF appended = << >> THEN rs ELSE appended

\* results.insert(0, clinic_data)
InsertResults(rs, appended) == appended \o rs

\* results.append(clinic_data)
AppendResults(rs, appended) == rs \o appended

(***************************************************************************)
(* The output files.  A written file is the text that was written.         *)
(***************************************************************************)
\* py.py 337-340, Scrap.py 224-227
fieldnames ==
  << "clinic_name", "provider_name", "credentials", "website_url", "city_state",
     "contact_info", "website_provider" >>

\* a cell written as it is, whatever it holds
CsvCellUnquoted(value) == IF value = None THEN "" ELSE value

\* csv.writer (excel dialect, QUOTE_MINIMAL): None is written as the empty
\* string; a value with a comma, a quote, CR or LF is put in quotes with its
\* quotes doubled
CsvCell(value) ==
  IF value = None THEN ""
  ELSE IF CharsOf(value) \cap {",", "\"", "\r", "\n"} = {} THEN value
  ELSE "\"" \o JoinRange([k \in 1..Len(value) |->
                            IF Ch(value, k) = "\"" THEN "\"\"" ELSE Ch(value, k)],
                         1, Len(value))
       \o "\""

\* writer.writeheader() / writer.writerow(result): the cells joined by commas,
\* ended by CRLF (the file is opened with newline='')
CsvLine(cells) == Join(",", cells) \o "\r\n"

\* py.py 341-345, Scrap.py 228-232
CsvText(rs) ==
  CsvLine(fieldnames)
  \o JoinRange([r \in 1..Len(rs) |->
                  CsvLine([k \in 1..Len(fieldnames) |-> CsvCell(rs[r][fieldnames[k]])])],
               1, Len(rs))

\* json.dump's string literal: quotes, backslashes and control characters escaped
JsonEscape(c) ==
  CASE c \in {"\"", "\\"} -> "\\" \o c
    [] c = "\n" -> "\\n"
    [] c = "\r" -> "\\r"
    [] c = "\t" -> "\\t"
    [] OTHER -> c

JsonString(str) ==
  "\"" \o JoinRange([k \in 1..Len(str) |-> JsonEscape(Ch(str, k))], 1, Len(str)) \o "\""

JsonValue(value) == IF value = None THEN "null" ELSE JsonString(value)

\* one dict with indent=4 at nesting level 1: its items in insertion order
JsonObject(clinic_data) ==
  "    {\n"
  \o Join(",\n", [k \in 1..Len(fieldnames) |->
                    "        " \o JsonString(fieldnames[k]) \o ": "
                    \o JsonValue(clinic_data[fieldnames[k]])])
  \o "\n    }"

\* Scrap.py 252: json.dump(results, jsonfile, indent=4)
JsonText(rs) ==
  IF rs = << >> THEN "[]"
  ELSE "[\n" \o Join(",\n", [r \in 1..Len(rs) |-> JsonObject(rs[r])]) \o "\n]"

\* what a save operation did: the text it wrote (None if it wrote nothing),
\* whether it reported an error and whether it raised to its caller
Saved(fn, written, logged, raised) ==
  [fn |-> fn, written |-> written, logged |-> logged, raised |-> raised]

\* the statements that write: open() raises when the file is not writable
WriteTry(fn, text, writable) ==
  IF writable THEN Saved(fn, text, FALSE, FALSE) ELSE Saved(fn, None, FALSE, TRUE)

\* py.py 347-349: except Exception: print and log the error
ExceptLogsSave(try) ==
  IF try.raised THEN [try EXCEPT !.logged = TRUE, !.raised = FALSE] ELSE try

\* py.py 322-349 (try / except around the writing);
\* Scrap.py 211-235 (the writing is not in a try)
save_results_to_csv(v, rs, writable) ==
  IF v = "py" THEN ExceptLogsSave(WriteTry("save_results_to_csv", CsvText(rs), writable))
  ELSE WriteTry("save_results_to_csv", CsvText(rs), writable)

\* Scrap.py 237-255 (the writing is not in a try)
save_results_to_json(rs, writable) == WriteTry("save_results_to_json", JsonText(rs), writable)

(***************************************************************************)
(* ClinicProspectingAgent (Scrapper.py).  A search result is what the      *)
(* search API returned for one site, with the document the site answers    *)
(* with when the agent visits it: [link, page]; link is None when the      *)
(* result has no "link" key.                                               *)
(***************************************************************************)
SearchResult(link, page) == [link |-> link, page |-> page]

\* Scrapper.py 116-124
NewClinicData(url) ==
  [name |-> None, url |-> url, provider_name |-> None, credentials |-> None,
   city_state |-> None, contact_info |-> None, website_provider |-> None]

\* Scrapper.py 131-132
Scrapper_name(doc) ==
  LET title == IF doc.title # NoTitle THEN doc.title.string ELSE None
  IN IF Truthy(title) THEN Strip(BeforeFirst(title, "|")) ELSE None

\* the text nodes of the document in document order
TextNodes(doc) ==
  LET NotEmpty(e) == e.text # ""
      elems == SelectSeq(doc.elems, NotEmpty)
  IN (IF Truthy(TitleText(doc)) THEN << TitleText(doc) >> ELSE << >>)
     \o [k \in 1..Len(elems) |-> elems[k].text]

\* Scrapper.py 142-144
Scrapper_contact_info(doc) ==
  LET Test(t) ==
        \/ Contains("@", t)
        \/ \E lower \in { ToLower(t) } : Contains("phone", lower) \/ Contains("tel:", lower)
      found == SelectSeq(TextNodes(doc), Test)
  IN IF found # << >> THEN Strip(found[1]) ELSE None

\* Scrapper.py 147-151
Scrapper_city_state(doc) ==
  LET address_elements == FindAllByClass(doc, {"address", "div"}, {"address"})
  IN IF address_elements # << >> THEN Strip(address_elements[1].text) ELSE None

\* Scrapper.py 157
footer_providers == << "dentalqore", "roya", "ekwa", "tebra", "imatrix", "growthplug" >>

\* Scrapper.py 154-161
Scrapper_website_provider(doc) ==
  LET footer == FindAllByTag(doc, "footer")
      Found(k) == Contains(footer_providers[k], ToLower(footer[1].text))
  IN IF footer = << >> \/ ~ \E k \in 1..Len(footer_providers) : Found(k) THEN None
     ELSE footer_providers[CHOOSE k \in 1..Len(footer_providers) :
                             Found(k) /\ \A m \in 1..(k - 1) : ~Found(m)]

\* Scrapper.py 106-167: a failed request leaves the initial record
Scrapper_extract_clinic_data(url, page) ==
  IF page = FetchError THEN NewClinicData(url)
  ELSE [NewClinicData(url) EXCEPT !.name = Scrapper_name(page),
                                  !.contact_info = Scrapper_contact_info(page),
                                  !.city_state = Scrapper_city_state(page),
                                  !.website_provider = Scrapper_website_provider(page)]

\* Scrapper.py 179-183
corporate_signals ==
  << "health system", "medical group", "hospital", "ascension", "providence", "kaiser",
     "dignity", "community health", "medical center", "health partners" >>

\* Scrapper.py 187: signal.lower() of each signal
SignalsLower == [k \in 1..Len(corporate_signals) |-> ToLower(corporate_signals[k])]

\* Scrapper.py 169-190
is_corporate_clinic(data) ==
  /\ Truthy(data.name)
  /\ \E name_lower \in { ToLower(data.name) } :
       \E signals \in { SignalsLower } :
         \E k \in 1..Len(signals) : Contains(signals[k], name_lower)

\* Scrapper.py 202-210: the dict in insertion order
verticals ==
  << [vertical |-> "veterinary", keywords |-> {"vet", "animal", "pet", "dvm", "vmd"}],
     [vertical |-> "dentistry", keywords |-> {"dent", "oral", "dds", "dmd"}],
     [vertical |-> "cardiology", keywords |-> {"cardio", "heart"}],
     [vertical |-> "chiropractic", keywords |-> {"chiro", "spine", "dc"}],
     [vertical |-> "podiatry", keywords |-> {"foot", "ankle", "dpm"}],
     [vertical |-> "internal medicine", keywords |-> {"internal medicine"}],
     [vertical |-> "family medicine", keywords |-> {"family"}] >>

\* Scrapper.py 192-219: the first vertical one of whose keywords is in the name
categorize_by_vertical(data) ==
  IF ~Truthy(data.name) THEN "other specialty"
  ELSE LET name_lower == CHOOSE lower \in { ToLower(data.name) } : TRUE
           Found(k) == \E keyword \in verticals[k].keywords : Contains(keyword, name_lower)
           found == { k \in 1..Len(verticals) : Found(k) }
       IN IF found = {} THEN "other specialty"
          ELSE verticals[CHOOSE k \in found : \A m \in found : k <= m].vertical

\* Scrapper.py 234-244: one result of the loop; a result without a link is
\* skipped, a corporate clinic is dropped, the others get their vertical
ProcessedResult(result) ==
  IF ~Truthy(result.link) THEN << >>
  ELSE LET clinic_data == Scrapper_extract_clinic_data(result.link, result.page)
       IN IF is_corporate_clinic(clinic_data) THEN << >>
          ELSE << [field \in DOMAIN clinic_data \cup {"vertical"} |->
                     IF field = "vertical" THEN categorize_by_vertical(clinic_data)
                     ELSE clinic_data[field]] >>

\* what the search API can list: a site that answers with a clinic's page at
\* one visit and fails at another, a corporate clinic, a result without a
\* link, and a second private clinic
SearchResults ==
  { SearchResult("http://a.example.com",
                 Page([string |-> "Smile Dental | Home"],
                      << Elem("footer", None, None, "Powered by Tebra") >>)),
    SearchResult("http://a.example.com", FetchError),
    SearchResult("http://b.example.com", Page([string |-> "Mercy Medical Group"], << >>)),
    SearchResult(None, FetchError),
    SearchResult("http://c.example.com",
                 Page([string |-> " Happy Paws Vet | Contact"],
                      << Elem("div", "address", None, " Reno, NV "),
                         Elem("p", None, None, "Phone: 555-0100") >>)) }

\* Scrapper.py 221-249
RECURSIVE process_search_results(_)
process_search_results(search_results) ==
  IF search_results = << >> THEN << >>
  ELSE ProcessedResult(Head(search_results)) \o process_search_results(Tail(search_results))

\* the queries of run_prospecting_campaign in the order it makes them
\* (Scrapper.py 308-334): for each vertical and location one search per
\* provider, or one search when there are no providers; then one copyright
\* search per provider
RECURSIVE Flatten(_)
Flatten(lists) == IF lists = << >> THEN << >> ELSE Head(lists) \o Flatten(Tail(lists))

\* Scrapper.py 39-42
ClinicQuery(vertical, location, website_provider) ==
  IF Truthy(website_provider) THEN vertical \o " " \o location \o " " \o website_provider
  ELSE vertical \o " " \o location

\* Scrapper.py 80
CopyrightQuery(website_provider) == "Medical website powered by " \o website_provider

CampaignQueries(vs, locations, website_providers) ==
  Flatten([v \in 1..Len(vs) |->
    Flatten([l \in 1..Len(locations) |->
      IF website_providers # None /\ website_providers # << >>
      THEN [p \in 1..Len(website_providers) |->
              ClinicQuery(vs[v], locations[l], website_providers[p])]
      ELSE << ClinicQuery(vs[v], locations[l], None) >>])])
  \o (IF website_providers # None /\ website_providers # << >>
      THEN [p \in 1..Len(website_providers) |-> CopyrightQuery(website_providers[p])]
      ELSE << >>)

\* every prospect is taken as new
AlwaysNew(prospect, seen) == TRUE

\* Scrapper.py 340
IsNew(prospect, seen) == prospect.url \notin seen

\* Scrapper.py 337-343: the loop from its k-th prospect on, with the
\* locals unique_prospects and unique_urls as it goes
RECURSIVE RemoveDuplicates(_, _, _, _)
RemoveDuplicates(prospects, k, kept, seen) ==
  IF k > Len(prospects) THEN [unique_prospects |-> kept, unique_urls |-> seen]
  ELSE IF IsNew(prospects[k], seen)
       THEN RemoveDuplicates(prospects, k + 1, Append(kept, prospects[k]),
                             seen \cup {prospects[k].url})
       ELSE RemoveDuplicates(prospects, k + 1, kept, seen)

\* Scrapper.py 264-267
prospect_fieldnames ==
  << "name", "vertical", "provider_name", "credentials", "city_state", "contact_info",
     "website_provider", "url" >>

\* Scrapper.py 268-272
ProspectCsvText(data) ==
  CsvLine(prospect_fieldnames)
  \o JoinRange([r \in 1..Len(data) |->
                  CsvLine([k \in 1..Len(prospect_fieldnames) |->
                             CsvCell(data[r][prospect_fieldnames[k]])])],
               1, Len(data))

\* the keys of a prospect in insertion order (Scrapper.py 116-124, 243)
prospect_keys ==
  << "name", "url", "provider_name", "credentials", "city_state", "contact_info",
     "website_provider", "vertical" >>

\* Scrapper.py 288-289: json.dump(data, f, indent=4)
ProspectJsonText(data) ==
  IF data = << >> THEN "[]"
  ELSE "[\n"
       \o Join(",\n", [r \in 1..Len(data) |->
            "    {\n"
            \o Join(",\n", [k \in 1..Len(prospect_keys) |->
                              "        " \o JsonString(prospect_keys[k]) \o ": "
                              \o JsonValue(data[r][prospect_keys[k]])])
            \o "\n    }"])
       \o "\n]"

\* Scrapper.py 251-274 (the writing is not in a try)
save_to_csv(data, writable) == WriteTry("save_to_csv", ProspectCsvText(data), writable)

\* Scrapper.py 276-291 (the writing is not in a try)
save_to_json(data, writable) == WriteTry("save_to_json", ProspectJsonText(data), writable)

(***************************************************************************)
(* State.  variant: which script runs ("py": py.py, "Scrap": Scrap.py);    *)
(* competitors: self.competitors; file: the input file; urls: the loaded   *)
(* list; i: the loop index of process_urls; results: its list; pc: where   *)
(* the run is; passes: the passes of the loop so far.  call and ret hold   *)
(* the arguments and the result of a single call of a method.  scan holds  *)
(* the locals phone_numbers and emails of py.py's contact scan while it    *)
(* runs, with the set of <<field, tier>> it has examined; saves lists the  *)
(* outcomes of the save operations so far.  all_prospects,                 *)
(* unique_prospects and unique_urls are the locals of                      *)
(* run_prospecting_campaign of src/Scrapper.py.                            *)
(***************************************************************************)
VARIABLES variant, competitors, file, urls, i, results, pc, passes, call, ret, scan, saves,
          all_prospects, unique_prospects, unique_urls

vars == << variant, competitors, file, urls, i, results, pc, passes, call, ret, scan, saves,
          all_prospects, unique_prospects, unique_urls >>

NotReturned == [pending |-> TRUE]
NoCall == [fn |-> "none"]

\* no prospecting campaign runs
NoCampaign == all_prospects = << >> /\ unique_prospects = << >> /\ unique_urls = {}
NoScan == [phone_numbers |-> << >>, emails |-> << >>, examined |-> {}]

\* py.py 355-362, Scrap.py 289
MainCompetitors == << "Dentalqore", "Roya.com", "ekwa.com", "Tebra", "iMatrix", "GrowthPlug" >>

(* ------------------------------ inputs --------------------------------- *)
MaxUrls == 2

RECURSIVE SeqsUpTo(_, _)
SeqsUpTo(S, n) ==
  IF n = 0 THEN { << >> }
  ELSE SeqsUpTo(S, n - 1) \cup { Append(q, x) : q \in SeqsUpTo(S, n - 1), x \in S }

CsvRows == { << "http://a.example.com" >>, << "b.example.com" >>, << "httpbin.org" >>, << >> }

JsonItems ==
  { [url |-> "http://a.example.com"], [url |-> "b.example.com"], [url |-> "httpbin.org"],
    [url |-> None], [name |-> "c.example.com"] }

InputFiles(v) ==
  { Unreadable }
  \cup { File(content) : content \in SeqsUpTo(IF v = "py" THEN JsonItems ELSE CsvRows, MaxUrls) }
  \cup { Malformed(content) :
           content \in SeqsUpTo(IF v = "py" THEN JsonItems ELSE CsvRows, MaxUrls) }

BatchPages ==
  { FetchError,
    Page(NoTitle, << Elem("div", None, None, "Welcome") >>),
    Page([string |-> "Home | Smile | Tebra"],
         << Elem("footer", None, None, "Powered by Tebra") >>),
    Page([string |-> None], << Elem("div", "contact", None, "iMatrix 619.555.1234") >>) }

(* ------------------------- the batch run (main) ------------------------ *)
Init ==
  /\ variant \in {"py", "Scrap"}
  /\ competitors = InitCompetitors(MainCompetitors)
  /\ file \in InputFiles(variant)
  /\ urls = << >>
  /\ i = 0
  /\ results = << >>
  /\ pc = "load"
  /\ passes = << >>
  /\ call = NoCall
  /\ ret = NotReturned
  /\ scan = NoScan
  /\ saves = << >>
  /\ NoCampaign

\* what Scrap.py's run returns
RunReturn(rs, output_csv) == [results |-> rs, output_csv |-> output_csv]

OutputCsv == "scraping_results/competitor_clinics.csv"

\* urls = scraper.load_urls_from_json(...) / self.load_urls_from_csv(csv_file);
\* Scrap.py 270-272: run returns [], None when there are no URLs
Load ==
  /\ pc = "load"
  /\ \E loaded \in { LoadUrls(variant, file) } :
       /\ urls' = loaded
       /\ pc' = IF variant = "Scrap" /\ loaded = << >> THEN "done" ELSE "process"
       /\ ret' = IF variant = "Scrap" /\ loaded = << >> THEN RunReturn(<< >>, None) ELSE ret
  /\ UNCHANGED << variant, competitors, file, i, results, passes, call, scan, saves,
               all_prospects, unique_prospects, unique_urls >>

\* one iteration of `for i, url in enumerate(urls)`
ProcessUrl ==
  /\ pc = "process"
  /\ i < Len(urls)
  /\ \E page1 \in BatchPages, page2 \in BatchPages :
       \E pass \in { LoopBody(variant, competitors, i, urls[i + 1], page1, page2) } :
         /\ results' = AppendResults(results, pass.appended)
         /\ passes' = Append(passes, [pass EXCEPT !.errors = LoopErrors(variant, pass)])
         /\ pc' = IF pass.raised /\ ~LoopCatches(variant) THEN "raised" ELSE "process"
  /\ i' = i + 1
  /\ UNCHANGED << variant, competitors, file, urls, call, ret, scan, saves,
               all_prospects, unique_prospects, unique_urls >>

\* return results: process_urls is over and its caller saves the results
Return ==
  /\ pc = "process"
  /\ i = Len(urls)
  /\ pc' = "save_csv"
  /\ UNCHANGED << variant, competitors, file, urls, i, results, passes, call, ret, scan, saves,
               all_prospects, unique_prospects, unique_urls >>

\* py.py 373: scraper.save_results_to_csv(results), the last statement;
\* Scrap.py 280: output_csv = self.save_results_to_csv(results)
SaveCsv ==
  /\ pc = "save_csv"
  /\ \E writable \in BOOLEAN :
       \E save \in { save_results_to_csv(variant, results, writable) } :
         /\ saves' = Append(saves, save)
         /\ pc' = IF save.raised THEN "run_raised"
                  ELSE IF variant = "Scrap" THEN "save_json" ELSE "done"
  /\ UNCHANGED << variant, competitors, file, urls, i, results, passes, call, ret, scan,
               all_prospects, unique_prospects, unique_urls >>

\* Scrap.py 281-283: self.save_results_to_json(results); return results, output_csv
SaveJson ==
  /\ pc = "save_json"
  /\ \E writable \in BOOLEAN :
       \E save \in { save_results_to_json(results, writable) } :
         /\ saves' = Append(saves, save)
         /\ pc' = IF save.raised THEN "run_raised" ELSE "done"
         /\ ret' = IF save.raised THEN ret ELSE RunReturn(results, OutputCsv)
  /\ UNCHANGED << variant, competitors, file, urls, i, results, passes, call, scan,
               all_prospects, unique_prospects, unique_urls >>

Next == Load \/ ProcessUrl \/ Return \/ SaveCsv \/ SaveJson

Spec == Init /\ [][Next]_vars

(* ---------------- check_competitor_presence, called once --------------- *)
MaxCompetitors == 2
MaxMatchElems == 2

CallUrl == "http://a.example.com"

MatchNames == { "Tebra", "iMatrix", "ekwa.com" }

MatchElems ==
  { Elem("div", None, None, "Powered by TEBRA"),
    Elem("footer", None, None, "Site by iMatrix"),
    Elem("a", None, "https://www.tebra.com/x", "Our partner"),
    Elem("div", "ekwa.com-widget", None, "Smile"),
    Elem("p", None, None, "Family dentistry") }

MatchTitles == { NoTitle, [string |-> "Smile | Tebra"] }

MatchPages ==
  { FetchError }
  \cup { Page(title, elems) : title \in MatchTitles, elems \in SeqsUpTo(MatchElems, MaxMatchElems) }

\* a scraper made with the names, and the page its request will be answered with
InitMatch ==
  /\ variant = "py"
  /\ \E names \in SeqsUpTo(MatchNames, MaxCompetitors), page \in MatchPages :
       /\ competitors = InitCompetitors(names)
       /\ call = [fn |-> "check_competitor_presence", names |-> names,
                  url |-> CallUrl, page |-> page]
  /\ file = Unreadable
  /\ urls = << >>
  /\ i = 0
  /\ results = << >>
  /\ pc = "call"
  /\ passes = << >>
  /\ ret = NotReturned
  /\ scan = NoScan
  /\ saves = << >>
  /\ NoCampaign

\* has_competitor, competitor = self.check_competitor_presence(url)
CallCheck ==
  /\ pc = "call"
  /\ call.fn = "check_competitor_presence"
  /\ ret' = CheckCompetitorPresence(competitors, Fetch(call.url, call.page))
  /\ pc' = "returned"
  /\ UNCHANGED << variant, competitors, file, urls, i, results, passes, call, scan, saves,
               all_prospects, unique_prospects, unique_urls >>

NextMatch == CallCheck

SpecMatch == InitMatch /\ [][NextMatch]_vars

(* ------------------- extract_clinic_data, called once ------------------ *)
MaxExtractElems == 2

ExtractElems ==
  { Elem("div", "contact-box", None, "Call 619.555.1234 or a@b.co"),
    Elem("a", None, "tel:555-1234", "Call us"),
    Elem("a", None, "mailto:c@d.org", "Email"),
    Elem("p", None, None, "Jane Smith MD 1-800-555-0000 x@y.io"),
    Elem("span", "phone", None, "by appointment"),
    Elem("p", "address", None, "San Diego, CA 92101"),
    Elem("div", "location", None, "Austin, TX or Reno, NV 89501"),
    Elem("div", "about-team", None, "Ann Lee DDS Reno, NV") }

ExtractTitles == { NoTitle, [string |-> "Home | Smile Dental | Tebra"], [string |-> None] }

ExtractPages ==
  { FetchError }
  \cup { Page(title, elems) :
         title \in ExtractTitles, elems \in SeqsUpTo(ExtractElems, MaxExtractElems) }

InitExtract ==
  /\ variant \in {"py", "Scrap"}
  /\ competitors = InitCompetitors(MainCompetitors)
  /\ \E competitor \in {"tebra", "imatrix"}, page \in ExtractPages :
       call = [fn |-> "extract_clinic_data", url |-> CallUrl,
               competitor |-> competitor, page |-> page]
  /\ file = Unreadable
  /\ urls = << >>
  /\ i = 0
  /\ results = << >>
  /\ pc = "call"
  /\ passes = << >>
  /\ ret = NotReturned
  /\ scan = NoScan
  /\ saves = << >>
  /\ NoCampaign

\* clinic_data = self.extract_clinic_data(url, competitor)
CallExtract ==
  /\ pc = "call"
  /\ call.fn = "extract_clinic_data"
  /\ ret' = ExtractClinicData(variant, competitors, call.url, call.competitor,
                              Fetch(call.url, call.page))
  /\ pc' = "returned"
  /\ UNCHANGED << variant, competitors, file, urls, i, results, passes, call, scan, saves,
               all_prospects, unique_prospects, unique_urls >>

NextExtract == CallExtract

SpecExtract == InitExtract /\ [][NextExtract]_vars

(* ---- the contact scan of extract_clinic_data (py.py), statement by ---- *)
(* ---- statement, on a page whose earlier fields were extracted      ---- *)
ContactPages ==
  { page \in ExtractPages :
      ~page.error /\ (page.title = NoTitle \/ page.title.string # None) }

InitContact ==
  /\ variant = "py"
  /\ competitors = InitCompetitors(MainCompetitors)
  /\ \E page \in ContactPages : call = [fn |-> "contact_info", page |-> page]
  /\ file = Unreadable
  /\ urls = << >>
  /\ i = 0
  /\ results = << >>
  /\ pc = "contact_elements"
  /\ passes = << >>
  /\ ret = NotReturned
  /\ scan = NoScan
  /\ saves = << >>
  /\ NoCampaign

\* py.py 220-229: for element in contact_elements, both patterns
ScanContactElements ==
  /\ pc = "contact_elements"
  /\ scan' = [phone_numbers |-> scan.phone_numbers \o PhonesInContactElements(call.page),
              emails |-> scan.emails \o EmailsInContactElements(call.page),
              examined |-> scan.examined \cup { << "phone", "contact_elements" >>,
                                                 << "email", "contact_elements" >> }]
  /\ pc' = "tel_links"
  /\ UNCHANGED << variant, competitors, file, urls, i, results, passes, call, ret, saves,
               all_prospects, unique_prospects, unique_urls >>

\* py.py 231-237: for link in tel_links
ScanTelLinks ==
  /\ pc = "tel_links"
  /\ scan' = [scan EXCEPT !.phone_numbers = @ \o PhonesInLinks(call.page),
                          !.examined = @ \cup { << "phone", "links" >> }]
  /\ pc' = "email_links"
  /\ UNCHANGED << variant, competitors, file, urls, i, results, passes, call, ret, saves,
               all_prospects, unique_prospects, unique_urls >>

\* py.py 239-244: for link in email_links
ScanEmailLinks ==
  /\ pc = "email_links"
  /\ scan' = [scan EXCEPT !.emails = @ \o EmailsInLinks(call.page),
                          !.examined = @ \cup { << "email", "links" >> }]
  /\ pc' = "full_text"
  /\ UNCHANGED << variant, competitors, file, urls, i, results, passes, call, ret, saves,
               all_prospects, unique_prospects, unique_urls >>

\* the full text searched whatever was collected
AlwaysFullText(collected) == TRUE

\* py.py 247 `if not phone_numbers:` and 251 `if not emails:`
NeedsFullText(collected) == collected = << >>

\* py.py 246-253
ScanFullText ==
  /\ pc = "full_text"
  /\ scan' =
       [phone_numbers |-> IF NeedsFullText(scan.phone_numbers)
                            THEN PhonesInFullText(call.page) ELSE scan.phone_numbers,
        emails |-> IF NeedsFullText(scan.emails)
                     THEN EmailsInFullText(call.page) ELSE scan.emails,
        examined |-> scan.examined
                     \cup (IF NeedsFullText(scan.phone_numbers)
                             THEN { << "phone", "full_text" >> } ELSE {})
                     \cup (IF NeedsFullText(scan.emails)
                             THEN { << "email", "full_text" >> } ELSE {})]
  /\ pc' = "format"
  /\ UNCHANGED << variant, competitors, file, urls, i, results, passes, call, ret, saves,
               all_prospects, unique_prospects, unique_urls >>

\* py.py 255-271
FormatContact ==
  /\ pc = "format"
  /\ ret' = [contact_info |->
               JoinOrUnset(py_contact_list(scan.phone_numbers, scan.emails), " | ", "")]
  /\ pc' = "returned"
  /\ UNCHANGED << variant, competitors, file, urls, i, results, passes, call, scan, saves,
               all_prospects, unique_prospects, unique_urls >>

NextContact ==
  ScanContactElements \/ ScanTelLinks \/ ScanEmailLinks \/ ScanFullText \/ FormatContact

SpecContact == InitContact /\ [][NextContact]_vars

(* ------- saving the records extract_clinic_data returns ------- *)
MaxSaved == 2

SavePages ==
  { FetchError,
    Page([string |-> "Smile \"Best\" Dental, LLC | Tebra"],
         << Elem("p", "address", None, "San Diego, CA 92101"),
            Elem("div", "contact-box", None, "Call 619.555.1234 or a@b.co") >>),
    Page(NoTitle, << Elem("div", "about-team", None, "Ann Lee DDS Reno, NV") >>),
    Page([string |-> "C:\\Clinics\\Smile"], << >>) }

SaveRecords(v) ==
  { ExtractClinicData(v, InitCompetitors(MainCompetitors), CallUrl, "tebra", page).clinic_data :
      page \in SavePages }

InitSave ==
  /\ variant \in {"py", "Scrap"}
  /\ competitors = InitCompetitors(MainCompetitors)
  /\ file = Unreadable
  /\ urls = << >>
  /\ i = 0
  /\ results \in SeqsUpTo(SaveRecords(variant), MaxSaved)
  /\ pc = "save_csv"
  /\ passes = << >>
  /\ call = NoCall
  /\ ret = NotReturned
  /\ scan = NoScan
  /\ saves = << >>
  /\ NoCampaign

NextSave == SaveCsv \/ SaveJson

SpecSave == InitSave /\ [][NextSave]_vars

(* ---- process_urls on lists long enough for the pacing delay; the same ---- *)
(* ---- document answers both requests for a site                         ---- *)
MaxPySites == 6
MaxScrapSites == 11

\* py.py: a list of JSON "url" values, at most one of them not a string;
\* Scrap.py: a list of CSV cells
PacedUrls(v) ==
  IF v = "py"
    THEN SeqsUpTo({CallUrl}, MaxPySites)
         \cup { [q EXCEPT ![bad] = None] :
                  q \in SeqsUpTo({CallUrl}, MaxPySites) \ {<< >>}, bad \in 1..MaxPySites }
    ELSE SeqsUpTo({CallUrl}, MaxScrapSites)

PacedPages(v) ==
  { Page(NoTitle, << Elem("div", None, None, "Welcome") >>),
    Page(NoTitle, << Elem("footer", None, None, "Powered by Tebra") >>) }
  \cup (IF v = "py" THEN { FetchError } ELSE {})

InitPacing ==
  /\ variant \in {"py", "Scrap"}
  /\ competitors = InitCompetitors(MainCompetitors)
  /\ file = Unreadable
  /\ urls \in PacedUrls(variant)
  /\ i = 0
  /\ results = << >>
  /\ pc = "process"
  /\ passes = << >>
  /\ call = NoCall
  /\ ret = NotReturned
  /\ scan = NoScan
  /\ saves = << >>
  /\ NoCampaign

\* one iteration of `for i, url in enumerate(urls)`
PacedUrl ==
  /\ pc = "process"
  /\ i < Len(urls)
  /\ \E page \in PacedPages(variant) :
       \E pass \in { LoopBody(variant, competitors, i, urls[i + 1], page, page) } :
         /\ results' = AppendResults(results, pass.appended)
         /\ passes' = Append(passes, [pass EXCEPT !.errors = LoopErrors(variant, pass)])
         /\ pc' = IF pass.raised /\ ~LoopCatches(variant) THEN "raised" ELSE "process"
  /\ i' = i + 1
  /\ UNCHANGED << variant, competitors, file, urls, call, ret, scan, saves,
               all_prospects, unique_prospects, unique_urls >>

NextPacing == PacedUrl \/ Return

SpecPacing == InitPacing /\ [][NextPacing]_vars

(* ---- run_prospecting_campaign (Scrapper.py): the searches, the removal ---- *)
(* ---- of duplicates, the two saves and the return                       ---- *)
MaxResults == 2

\* data.get("organic_results", []), or [] when the request fails or the
\* answer holds "error" (Scrapper.py 56-68, 92-104)
SearchAnswers == SeqsUpTo(SearchResults, MaxResults)

CampaignCall(vs, locations, website_providers) ==
  [fn |-> "run_prospecting_campaign", verticals |-> vs, locations |-> locations,
   website_providers |-> website_providers]

CampaignCalls ==
  { CampaignCall(<< "dentistry" >>, << "San Diego" >>, None),
    CampaignCall(<< "dentistry" >>, << "San Diego" >>, << "tebra" >>),
    CampaignCall(<< "dentistry", "veterinary" >>, << "San Diego" >>, << >>) }

Queries == CampaignQueries(call.verticals, call.locations, call.website_providers)

\* the searches of the loop over verticals and locations (Scrapper.py 308-323)
ClinicSearches ==
  Len(CampaignQueries(call.verticals, call.locations, None))
  * (IF call.website_providers = None \/ call.website_providers = << >> THEN 1
     ELSE Len(call.website_providers))

InitCampaign ==
  /\ variant = "Scrapper"
  /\ competitors = << >>
  /\ file = Unreadable
  /\ urls = << >>
  /\ i = 0
  /\ results = << >>
  /\ pc = "search"
  /\ passes = << >>
  /\ call \in CampaignCalls
  /\ ret = NotReturned
  /\ scan = NoScan
  /\ saves = << >>
  /\ NoCampaign

\* one search with its results processed (Scrapper.py 313-315, 318-320, 329-331)
Searched(query, search_results) ==
  \E prospects \in { process_search_results(search_results) } :
    /\ all_prospects' = all_prospects \o prospects
    /\ passes' = Append(passes, [query |-> query, prospects |-> prospects])
    /\ i' = i + 1
    /\ UNCHANGED << variant, competitors, file, urls, results, pc, call, ret, scan, saves,
                    unique_prospects, unique_urls >>

\* Scrapper.py 308-323: search_clinics for the next vertical, location and provider
SearchClinics ==
  /\ pc = "search"
  /\ i < ClinicSearches
  /\ \E search_results \in SearchAnswers : Searched(Queries[i + 1], search_results)

\* Scrapper.py 326-334: search_by_copyright for the next provider
SearchByCopyright ==
  /\ pc = "search"
  /\ ClinicSearches <= i /\ i < Len(Queries)
  /\ \E search_results \in SearchAnswers : Searched(Queries[i + 1], search_results)

\* Scrapper.py 337-343
Deduplicate ==
  /\ pc = "search"
  /\ i = Len(Queries)
  /\ \E loop \in { RemoveDuplicates(all_prospects, 1, << >>, {}) } :
       /\ unique_prospects' = loop.unique_prospects
       /\ unique_urls' = loop.unique_urls
  /\ pc' = "save_to_csv"
  /\ UNCHANGED << variant, competitors, file, urls, i, results, passes, call, ret, scan,
                  saves, all_prospects >>

\* Scrapper.py 349: what the caller gets
CampaignReturn(prospects) == [prospects |-> prospects]

\* Scrapper.py 346
SaveToCsv ==
  /\ pc = "save_to_csv"
  /\ \E writable \in BOOLEAN :
       \E save \in { save_to_csv(unique_prospects, writable) } :
         /\ saves' = Append(saves, save)
         /\ pc' = IF save.raised THEN "run_raised" ELSE "save_to_json"
  /\ UNCHANGED << variant, competitors, file, urls, i, results, passes, call, ret, scan,
                  all_prospects, unique_prospects, unique_urls >>

\* Scrapper.py 347-349: self.save_to_json(unique_prospects); return unique_prospects
SaveToJson ==
  /\ pc = "save_to_json"
  /\ \E writable \in BOOLEAN :
       \E save \in { save_to_json(unique_prospects, writable) } :
         /\ saves' = Append(saves, save)
         /\ pc' = IF save.raised THEN "run_raised" ELSE "returned"
         /\ ret' = IF save.raised THEN ret ELSE CampaignReturn(unique_prospects)
  /\ UNCHANGED << variant, competitors, file, urls, i, results, passes, call, scan,
                  all_prospects, unique_prospects, unique_urls >>

NextCampaign == SearchClinics \/ SearchByCopyright \/ Deduplicate \/ SaveToCsv \/ SaveToJson

SpecCampaign == InitCampaign /\ [][NextCampaign]_vars

(***************************************************************************)
(* Properties.                                                             *)
(***************************************************************************)
\* the records of the passes, one pass after the other
RECURSIVE RecordsOf(_)
RecordsOf(ps) ==
  IF ps = << >> THEN << >> ELSE Head(ps).appended \o RecordsOf(Tail(ps))

Reported(pass, what) == \E k \in 1..Len(pass.errors) : pass.errors[k] = what

\* C1: process_urls returns a record for a URL if and only if
\* check_competitor_presence returned found = true for it: each pass of the loop
\* appends one record, carrying the URL and the competitor of the check, when the
\* check found a competitor and none otherwise; there are never more records than
\* input URLs, and every record belongs to a pass whose check found a competitor.
C1_RecordIffFound ==
  /\ \A k \in 1..Len(passes) :
       /\ passes[k].check.found <=> passes[k].appended # << >>
       /\ passes[k].check.found =>
            /\ Len(passes[k].appended) = 1
            /\ passes[k].appended[1].website_url = passes[k].url
            /\ passes[k].appended[1].website_provider = passes[k].check.competitor
  /\ Len(results) = Cardinality({ k \in 1..Len(passes) : passes[k].check.found })
  /\ Len(results) <= Len(urls)
  /\ \A r \in 1..Len(results) :
       \E k \in 1..Len(passes) :
         passes[k].check.found /\ passes[k].appended = << results[r] >>

\* a finished run over two URLs of which only the second matched: one record
C1_Witness ==
  /\ pc = "done"
  /\ Len(passes) = 2
  /\ ~passes[1].check.found
  /\ passes[2].check.found
  /\ Len(results) = 1
  /\ results[1].website_url = passes[2].url

\* C2 as stated: a failure while handling one site (a failed fetch, or an
\* exception while matching or extracting) never aborts process_urls, the failing
\* site contributes no match and no record, and every URL is processed.
C2_FailingSiteContributesNothing ==
  /\ pc # "raised"
  /\ \A k \in 1..Len(passes) :
       passes[k].errors # << >> => ~passes[k].check.found /\ passes[k].appended = << >>
  /\ pc = "done" => Len(passes) = Len(urls)

\* C2, amended: a failure while handling one site never aborts process_urls and
\* every URL is processed; a site that fails before or while it is matched
\* contributes no match and no record, and a matched site whose extraction fails
\* contributes a record that has its URL, its competitor and unset fields.
C2_FailureNeverAborts ==
  /\ pc # "raised"
  /\ pc = "done" => Len(passes) = Len(urls)
  /\ \A k \in 1..Len(passes) :
       /\ passes[k].index = k - 1
       /\ (Reported(passes[k], "check") \/ Reported(passes[k], "process")) =>
            ~passes[k].check.found /\ passes[k].appended = << >>
       /\ Reported(passes[k], "extract") =>
            /\ passes[k].check.found
            /\ passes[k].appended =
                 << ClinicData(IF variant = "py" THEN "" ELSE None, passes[k].url,
                               passes[k].check.competitor) >>

\* a finished run whose first site failed and whose second site gave a record
C2_Witness ==
  /\ pc = "done"
  /\ Len(passes) = 2
  /\ Reported(passes[1], "check")
  /\ passes[2].check.found
  /\ Len(results) = 1

\* C3: sites are handled one at a time in input order and the records are in the
\* order of their URLs in the input: pass k handles urls[k], and results is the
\* records of pass 1, then those of pass 2, and so on.
C3_RecordsInInputOrder ==
  /\ Len(passes) = i
  /\ i <= Len(urls)
  /\ \A k \in 1..Len(passes) :
       /\ passes[k].index = k - 1
       /\ passes[k].url \in { urls[k], "http://" \o urls[k] }
  /\ results = RecordsOf(passes)

\* a finished run over two different URLs that both matched
C3_Witness ==
  /\ pc = "done"
  /\ Len(results) = 2
  /\ urls[1] # urls[2]
  /\ results[1].website_url = passes[1].url
  /\ results[2].website_url = passes[2].url
  /\ results[1] # results[2]

\* the vendor (lower-cased) is in the lower-cased visible text, raw markup or
\* footer text of the document
VendorIn(vendor, doc) ==
  \/ Contains(vendor, ToLower(GetText(doc)))
  \/ Contains(vendor, ToLower(ResponseText(doc)))
  \/ \E k \in 1..Len(doc.elems) :
       doc.elems[k].tag = "footer" /\ Contains(vendor, ToLower(doc.elems[k].text))

Returned(fn) == pc = "returned" /\ call.fn = fn

\* C4: for a fetched document, check_competitor_presence returns found = true if
\* and only if some lower-cased competitor is a substring of the document's
\* lower-cased visible text, raw markup or footer text.
C4_FoundIffSubstring ==
  (Returned("check_competitor_presence") /\ call.page # FetchError) =>
    (ret.found <=> \E k \in 1..Len(call.names) : VendorIn(ToLower(call.names[k]), call.page))

\* a document that has a competitor in its markup only, and is found
C4_Witness ==
  /\ Returned("check_competitor_presence")
  /\ call.page # FetchError
  /\ ret.found
  /\ \A k \in 1..Len(call.names) :
       ~Contains(ToLower(call.names[k]), ToLower(GetText(call.page)))

\* C5: when several configured competitors are present in a document,
\* check_competitor_presence returns the one that comes first in the configured
\* order of the list.
C5_FirstConfiguredWins ==
  (Returned("check_competitor_presence") /\ call.page # FetchError) =>
    \A k \in 1..Len(call.names) :
      ( /\ VendorIn(ToLower(call.names[k]), call.page)
        /\ \A j \in 1..(k - 1) : ~VendorIn(ToLower(call.names[j]), call.page) )
      => ret.competitor = ToLower(call.names[k])

\* Tebra configured before iMatrix, iMatrix first in the document: tebra returned
C5_Witness ==
  /\ Returned("check_competitor_presence")
  /\ call.names = << "Tebra", "iMatrix" >>
  /\ call.page # FetchError
  /\ call.page.title = NoTitle
  /\ Len(call.page.elems) = 2
  /\ Contains("imatrix", ToLower(call.page.elems[1].text))
  /\ Contains("tebra", ToLower(call.page.elems[2].text))
  /\ ret.competitor = "tebra"

\* C6: every result of check_competitor_presence, after a fetch that succeeded
\* or failed, has its competitor set if and only if found is true, and a set
\* competitor is one of the lower-cased names the scraper was made with.
C6_VendorIffFound ==
  Returned("check_competitor_presence") =>
    /\ ret.found <=> ret.competitor # None
    /\ ret.competitor # None =>
         \E k \in 1..Len(call.names) : ret.competitor = ToLower(call.names[k])
    /\ ~ret.raised

\* a scraper made with "iMatrix" finds "imatrix"
C6_Witness ==
  /\ Returned("check_competitor_presence")
  /\ call.names = << "iMatrix" >>
  /\ ret.found
  /\ ret.competitor = "imatrix"

\* the unset value of the variant's clinic_data
Unset(v) == IF v = "py" THEN "" ELSE None

\* what the variant's extractor of a field gives for a document
ExtractedField(v, comps, field, doc) ==
  CASE field = "clinic_name" ->
         IF v = "py" THEN py_clinic_name(comps, doc) ELSE Scrap_clinic_name(doc)
    [] field = "provider_name" ->
         IF v = "py" THEN py_provider(doc).provider_name ELSE Scrap_provider(doc).provider_name
    [] field = "credentials" ->
         IF v = "py" THEN py_provider(doc).credentials ELSE Scrap_provider(doc).credentials
    [] field = "city_state" ->
         IF v = "py" THEN py_city_state(doc) ELSE Scrap_city_state(doc)
    [] field = "contact_info" ->
         IF v = "py" THEN py_contact_info(doc) ELSE Scrap_contact_info(doc)

\* C7: extract_clinic_data never raises and returns a record whose website_url
\* is the URL it was given and whose website_provider is the competitor it was
\* given, whatever fails; every other field is the value of its extractor or
\* its unset default.
C7_ExtractNeverRaises ==
  Returned("extract_clinic_data") =>
    /\ ~ret.raised
    /\ DOMAIN ret.clinic_data = DOMAIN ClinicData(None, None, None)
    /\ ret.clinic_data.website_url = call.url
    /\ ret.clinic_data.website_provider = call.competitor
    /\ \A field \in {"clinic_name", "provider_name", "credentials", "city_state",
                      "contact_info"} :
         \/ ret.clinic_data[field] = Unset(variant)
         \/ /\ call.page # FetchError
            /\ ret.clinic_data[field] =
                 ExtractedField(variant, competitors, field, call.page)

\* a fetched page whose extraction fails: the record of the defaults is returned
C7_Witness ==
  /\ Returned("extract_clinic_data")
  /\ call.page # FetchError
  /\ ret.logged
  /\ ~ret.raised
  /\ ret.clinic_data = ClinicData("", call.url, call.competitor)

\* the URL has a scheme: a name of letters, digits, "+", "-" and "." that
\* starts with a letter, then "://"
HasScheme(u) ==
  \E n \in 1..(Len(u) - 3) :
    /\ SubSeq(u, n + 1, n + 3) = "://"
    /\ Ch(u, 1) \in Upper \cup Lower
    /\ \A k \in 1..n : Ch(u, k) \in Upper \cup Lower \cup Digit \cup {"+", "-", "."}

WithScheme(u) == IF HasScheme(u) THEN u ELSE "http://" \o u

\* the first cells of the rows that have cells
RECURSIVE FirstCells(_)
FirstCells(rows) ==
  IF rows = << >> THEN << >>
  ELSE (IF Head(rows) = << >> THEN << >> ELSE << Head(rows)[1] >>) \o FirstCells(Tail(rows))

\* C8: every URL handed to the fetcher or stored as a record's website_url has
\* a scheme: an input URL without a scheme is prefixed with "http://" and one
\* that has a scheme is left unchanged, for every input string, both when the
\* CSV file is loaded (Scrap.py) and when a list is processed (py.py).
C8_EveryUrlHasScheme ==
  /\ \A k \in 1..Len(passes) :
       \A j \in 1..Len(passes[k].fetched) : HasScheme(passes[k].fetched[j])
  /\ \A r \in 1..Len(results) : HasScheme(results[r].website_url)
  /\ variant = "py" =>
       \A k \in 1..Len(passes) : urls[k] # None => passes[k].url = WithScheme(urls[k])
  /\ (variant = "Scrap" /\ pc # "load" /\ file.readable) =>
       urls = [k \in 1..Len(FirstCells(file.content)) |->
                 WithScheme(FirstCells(file.content)[k])]

\* "httpbin.org" was handed to the fetcher as it is, "b.example.com" prefixed
C8_Witness ==
  /\ Len(passes) = 2
  /\ urls[1] = "httpbin.org"
  /\ passes[1].fetched = << "httpbin.org" >>
  /\ passes[2].fetched # << >>
  /\ passes[2].fetched[1] = "http://b.example.com"

\* the phone that is stored for a matched phone string
NormalizedPhone(matched) ==
  LET digits == OnlyDigits(matched)
  IN IF Len(digits) = 10
       THEN "(" \o SubSeq(digits, 1, 3) \o ") " \o SubSeq(digits, 4, 6) \o "-"
            \o SubSeq(digits, 7, 10)
     ELSE matched

\* extract_clinic_data of py.py returned after it formatted the contact info
Formatted == Returned("extract_clinic_data") /\ variant = "py" /\ ~ret.logged

\* the contact info made of the candidates of a phone and of an email
ContactOf(phone, email) ==
  IF phone # << >> /\ email # << >> THEN phone[1] \o " | " \o email[1]
  ELSE IF phone # << >> THEN phone[1]
  ELSE IF email # << >> THEN email[1]
  ELSE ""

\* C9: the phone retained by extract_clinic_data (py.py) is stored as
\* "(AAA) BBB-CCCC", built from its digits, if it has exactly 10 digits, and as
\* the matched string, unchanged, for any other number of digits.
C9_PhoneNormalization ==
  Formatted =>
    ret.clinic_data.contact_info =
      ContactOf(IF phone_numbers(call.page) = << >> THEN << >>
                ELSE << NormalizedPhone(phone_numbers(call.page)[1]) >>,
                emails(call.page))

\* "619.555.1234" is stored as "(619) 555-1234"
C9_Witness ==
  /\ Formatted
  /\ phone_numbers(call.page) # << >>
  /\ phone_numbers(call.page)[1] = "619.555.1234"
  /\ emails(call.page) = << "a@b.co" >>
  /\ ret.clinic_data.contact_info = "(619) 555-1234 | a@b.co"

\* the first candidate of the first tier that has candidates
FirstOfBestTier(tier1, tier2, tier3) ==
  IF tier1 # << >> THEN << tier1[1] >>
  ELSE IF tier2 # << >> THEN << tier2[1] >>
  ELSE IF tier3 # << >> THEN << tier3[1] >>
  ELSE << >>

BestPhone(doc) ==
  FirstOfBestTier(PhonesInContactElements(doc), PhonesInLinks(doc), PhonesInFullText(doc))

BestEmail(doc) ==
  FirstOfBestTier(EmailsInContactElements(doc), EmailsInLinks(doc), EmailsInFullText(doc))

\* C10: contact_info of extract_clinic_data (py.py) has at most one phone and at
\* most one email, each the first candidate of the highest-priority tier that has
\* a candidate for it (contact-class elements, then tel: / mailto: link targets,
\* then the text of the whole document), chosen for the phone whatever the
\* emails are and for the email whatever the phones are.
C10_FirstOfBestTier ==
  Formatted =>
    ret.clinic_data.contact_info =
      ContactOf(IF BestPhone(call.page) = << >> THEN << >>
                ELSE << FormatPhone(BestPhone(call.page)[1]) >>,
                BestEmail(call.page))

\* the phone of a tel: link kept although the text has another phone before it,
\* with the email of the text
C10_Witness ==
  /\ Formatted
  /\ PhonesInContactElements(call.page) = << >>
  /\ PhonesInLinks(call.page) = << "555-1234" >>
  /\ PhonesInFullText(call.page) = << "1-800-555-0000" >>
  /\ EmailsInLinks(call.page) = << >>
  /\ ret.clinic_data.contact_info = "555-1234 | x@y.io"

\* the elements the location extraction looks at first, in document order
LocationElements(doc) ==
  FindAllByClass(doc, {"address", "div", "p", "footer", "span"},
                 {"address", "location", "contact", "footer"})

\* "City, ST" and "City, ST" followed by a five-digit ZIP code
PlainLocation == CityState(Upper \cup Lower \cup Space \cup {"."})
ZipLocation == Cat(<< PlainLocation, Star(Sp), Rep(D, 5) >>)

\* "<group 1, stripped>, <group 2>" of a match of a location pattern
CityStateOfMatch(match) == Strip(match.g[1]) \o ", " \o match.g[2]

\* the text that decides the location: the text of the first prioritized
\* element where a location pattern matches, else the text of the whole page
LocationText(doc) ==
  LET elements == LocationElements(doc)
      hits == { k \in 1..Len(elements) :
                  ReSearch(PlainLocation, elements[k].text).found }
  IN  IF hits = {} THEN GetText(doc)
      ELSE elements[CHOOSE k \in hits : \A other \in hits : k <= other].text

\* "<city>, <two upper-case letters>" with a city that starts with a capital
CityStateForm(s) ==
  /\ Len(s) >= 5
  /\ Slice(s, 0, 1) \in Upper
  /\ Slice(s, Len(s) - 4, Len(s) - 2) = ", "
  /\ Slice(s, Len(s) - 2, Len(s) - 1) \in Upper
  /\ Slice(s, Len(s) - 1, Len(s)) \in Upper

\* C11: in py.py the location comes from the first prioritized element whose
\* text matches a location pattern, and from the text of the whole page only
\* when no prioritized element matches; in the deciding text the match of the
\* ZIP-qualified pattern gives city_state, the plain pattern is used only when
\* the ZIP-qualified pattern matches nothing, and a set city_state has the
\* form "<city>, <two upper-case letters>".
C11_ZipMatchPreferred ==
  (Returned("extract_clinic_data") /\ variant = "py" /\ ~ret.logged) =>
    LET text == LocationText(call.page)
        zip == ReSearch(ZipLocation, text)
        plain == ReSearch(PlainLocation, text)
        city_state == ret.clinic_data.city_state
    IN  /\ zip.found => city_state = CityStateOfMatch(zip)
        /\ (~zip.found /\ plain.found) => city_state = CityStateOfMatch(plain)
        /\ (~zip.found /\ ~plain.found) => city_state = ""
        /\ city_state # "" => CityStateForm(city_state)

\* the only prioritized element of a page of two elements holds a plain and,
\* further on, a ZIP-qualified occurrence: the ZIP-qualified match is the
\* location, not the plain one that starts earlier
C11_Witness ==
  /\ Returned("extract_clinic_data")
  /\ variant = "py"
  /\ ~ret.logged
  /\ Len(LocationElements(call.page)) = 1
  /\ LocationText(call.page) = "Austin, TX or Reno, NV 89501"
  /\ Len(call.page.elems) = 2
  /\ CityStateOfMatch(ReSearch(PlainLocation, LocationText(call.page)))
       = "Austin, TX"
  /\ ret.clinic_data.city_state = "TX or Reno, NV"

\* C19: credentials is set only if provider_name is set, in both variants,
\* whichever region gave the match, and also when the extraction was cut
\* short by an exception.
C19_CredentialsOnlyWithProvider ==
  Returned("extract_clinic_data") =>
    (ret.clinic_data.credentials # Unset(variant) =>
       ret.clinic_data.provider_name # Unset(variant))

\* Scrap.py finds a name in front of the credential of an about section and
\* sets both fields
C19_Witness ==
  /\ Returned("extract_clinic_data")
  /\ variant = "Scrap"
  /\ ~ret.logged
  /\ Len(call.page.elems) = 2
  /\ ret.clinic_data.provider_name = "Ann Lee"
  /\ ret.clinic_data.credentials = "DDS"

\* the candidates a tier has for a field
TierCandidates(field, tier, doc) ==
  CASE field = "phone" /\ tier = "contact_elements" -> PhonesInContactElements(doc)
    [] field = "phone" /\ tier = "links" -> PhonesInLinks(doc)
    [] field = "phone" /\ tier = "full_text" -> PhonesInFullText(doc)
    [] field = "email" /\ tier = "contact_elements" -> EmailsInContactElements(doc)
    [] field = "email" /\ tier = "links" -> EmailsInLinks(doc)
    [] field = "email" /\ tier = "full_text" -> EmailsInFullText(doc)

\* C18 as stated: for the phone and for the email, the tel: / mailto: links
\* are examined only when the contact-class elements gave no candidate, and the
\* text of the whole document only when both earlier tiers gave none.
C18_TierOnlyIfPreviousEmpty ==
  call.fn = "contact_info" =>
    \A field \in {"phone", "email"} :
      /\ << field, "links" >> \in scan.examined =>
           TierCandidates(field, "contact_elements", call.page) = << >>
      /\ << field, "full_text" >> \in scan.examined =>
           /\ TierCandidates(field, "contact_elements", call.page) = << >>
           /\ TierCandidates(field, "links", call.page) = << >>

\* C18, amended: the contact-class elements and the tel: / mailto: links are
\* both always examined, the links after the elements; the text of the whole
\* document is examined for a field exactly when both gave no candidate for
\* it; the phone and the email kept are the first candidates of the first
\* tier that has one.
C18_LinksAlwaysTextOnlyIfEmpty ==
  call.fn = "contact_info" =>
    \A field \in {"phone", "email"} :
      /\ pc \in {"full_text", "format", "returned"} =>
           { << field, "contact_elements" >>, << field, "links" >> } \subseteq scan.examined
      /\ pc \in {"format", "returned"} =>
           (<< field, "full_text" >> \in scan.examined <=>
              /\ TierCandidates(field, "contact_elements", call.page) = << >>
              /\ TierCandidates(field, "links", call.page) = << >>)
      /\ pc = "returned" =>
           ret.contact_info =
             ContactOf(IF BestPhone(call.page) = << >> THEN << >>
                       ELSE << NormalizedPhone(BestPhone(call.page)[1]) >>,
                       BestEmail(call.page))

\* a contact-class element gave a phone and an email; the tel: link was
\* examined all the same, its phone collected behind the element's, and the
\* text of the whole document was not examined
C18_Witness ==
  /\ call.fn = "contact_info"
  /\ pc = "returned"
  /\ TierCandidates("phone", "contact_elements", call.page) = << "619.555.1234" >>
  /\ scan.phone_numbers = << "619.555.1234", "555-1234" >>
  /\ scan.examined = { << "phone", "contact_elements" >>, << "email", "contact_elements" >>,
                       << "phone", "links" >>, << "email", "links" >> }
  /\ ret.contact_info = "(619) 555-1234 | a@b.co"

(* ---- reading an output file back: csv.DictReader and json.load ---- *)
\* the pieces of s between separators of the given width that start at cuts
SplitAt(s, cuts, width) ==
  LET at == Ascending(cuts)
  IN [m \in 1..(Len(at) + 1) |->
        SubSeq(s, IF m = 1 THEN 1 ELSE at[m - 1] + width,
                  IF m > Len(at) THEN Len(s) ELSE at[m] - 1)]

\* a position of s outside the quoted cells: an even number of quotes before it
Unquoted(s, k) == Cardinality({ j \in 1..(k - 1) : Ch(s, j) = "\"" }) % 2 = 0

\* the value of a cell: a quoted cell without its quotes, doubled quotes single
CsvValue(cell) ==
  IF Len(cell) = 0 \/ Ch(cell, 1) # "\"" THEN cell
  ELSE LET inner == SubSeq(cell, 2, Len(cell) - 1)
       IN JoinRange([k \in 1..Len(inner) |->
                       IF Ch(inner, k) = "\"" /\ Unquoted(inner, k + 1) THEN ""
                       ELSE Ch(inner, k)],
                    1, Len(inner))

\* csv.reader: the rows of a text, each the values of its cells
CsvRowsOf(text) ==
  LET lines == SplitAt(text, { k \in 1..(Len(text) - 1) :
                                 SubSeq(text, k, k + 1) = "\r\n" /\ Unquoted(text, k) }, 2)
      Cells(line) ==
        LET cells == SplitAt(line, { k \in 1..Len(line) :
                                       Ch(line, k) = "," /\ Unquoted(line, k) }, 1)
        IN [c \in 1..Len(cells) |-> CsvValue(cells[c])]
      Filled(line) == line # ""
  IN [r \in 1..Len(SelectSeq(lines, Filled)) |-> Cells(SelectSeq(lines, Filled)[r])]

\* csv.DictReader: a record per row after the first, keyed by the first row
ReadCsv(text) ==
  LET rows == CsvRowsOf(text)
      header == rows[1]
  IN [r \in 1..(Len(rows) - 1) |->
        [name \in { header[c] : c \in 1..Len(header) } |->
           rows[r + 1][CHOOSE c \in 1..Len(header) : header[c] = name]]]

\* the number of backslashes that end right before position k of s
BackslashRun(s, k) ==
  CHOOSE n \in 0..(k - 1) :
    /\ \A j \in 1..n : Ch(s, k - j) = "\\"
    /\ n = k - 1 \/ Ch(s, k - n - 1) # "\\"

\* the end of the string literal of s that starts at from: the next quote
\* that is not escaped
LiteralEnd(s, from) ==
  CHOOSE q \in (from + 1)..Len(s) :
    /\ Ch(s, q) = "\"" /\ BackslashRun(s, q) % 2 = 0
    /\ \A p \in (from + 1)..(q - 1) : ~(Ch(s, p) = "\"" /\ BackslashRun(s, p) % 2 = 0)

\* the string a string literal stands for
JsonUnescape(literal) ==
  LET inner == SubSeq(literal, 2, Len(literal) - 1)
      Escapes(k) == Ch(inner, k) = "\\" /\ BackslashRun(inner, k) % 2 = 0
      Escaped(k) == k > 1 /\ Escapes(k - 1)
      Decoded(c) == CASE c = "n" -> "\n" [] c = "r" -> "\r" [] c = "t" -> "\t" [] OTHER -> c
  IN JoinRange([k \in 1..Len(inner) |->
                  IF Escapes(k) THEN ""
                  ELSE IF Escaped(k) THEN Decoded(Ch(inner, k)) ELSE Ch(inner, k)],
               1, Len(inner))

\* the value written after "key": on a line, without the comma behind it
JsonValueOf(str) ==
  LET value == IF Ch(str, Len(str)) = "," THEN SubSeq(str, 1, Len(str) - 1) ELSE str
  IN IF value = "null" THEN None ELSE JsonUnescape(value)

\* json.load of a list of flat objects written one item per line
ReadJson(text) ==
  LET all == SplitAt(text, { k \in 1..Len(text) : Ch(text, k) = "\n" }, 1)
      lines == [l \in 1..Len(all) |-> LStrip(all[l])]
      opens == Ascending({ l \in 1..Len(lines) : lines[l] = "{" })
      Close(open) == CHOOSE l \in (open + 1)..Len(lines) :
                       /\ lines[l] \in {"}", "},"}
                       /\ \A m \in (open + 1)..(l - 1) : lines[m] \notin {"}", "},"}
      Key(line) == JsonUnescape(SubSeq(line, 1, LiteralEnd(line, 1)))
      Value(line) == JsonValueOf(SubSeq(line, LiteralEnd(line, 1) + 3, Len(line)))
  IN [o \in 1..Len(opens) |->
        [key \in { Key(lines[l]) : l \in (opens[o] + 1)..(Close(opens[o]) - 1) } |->
           Value(lines[CHOOSE l \in (opens[o] + 1)..(Close(opens[o]) - 1) :
                         Key(lines[l]) = key])]]

\* the input file cannot be read, or stops being readable part of the way
BadInput == ~file.readable \/ file.malformed

\* C12: when the input file cannot be read or is malformed the loader returns
\* the empty list and does not raise, also when it had read URLs before the
\* failure, and the run that follows processes nothing and gives zero output
\* records.
C12_BadInputLoadsNothing ==
  (pc # "load" /\ BadInput) =>
    /\ urls = << >>
    /\ passes = << >>
    /\ results = << >>
    /\ pc \in {"process", "save_csv", "done"}
    /\ \A k \in 1..Len(saves) :
         saves[k].written # None => ReadCsv(saves[k].written) = << >>
    /\ (variant = "Scrap" /\ pc = "done") => ret = RunReturn(<< >>, None)

\* py.py read two URLs from a JSON file and then failed: nothing is loaded and
\* the CSV file that is written has the header row only
C12_Witness ==
  /\ variant = "py"
  /\ file = Malformed(<< [url |-> "http://a.example.com"], [url |-> "b.example.com"] >>)
  /\ pc = "done"
  /\ urls = << >>
  /\ Len(saves) = 1
  /\ saves[1].written = CsvLine(fieldnames)

\* C13 as stated: a save operation that fails to write reports the failure
\* and does not raise to its caller; the results in memory stay as they were,
\* and Scrap.py's run still returns them.
C13_SaveFailureContained ==
  /\ \A k \in 1..Len(saves) :
       saves[k].written = None => (saves[k].logged /\ ~saves[k].raised)
  /\ pc # "run_raised"
  /\ (variant = "Scrap" /\ saves # << >> /\ saves[Len(saves)].written = None) =>
       (pc = "done" /\ ret.results = results)

\* Scrap.py processed its URLs and has a record, the CSV file cannot be
\* written: the exception leaves save_results_to_csv and run, nothing is
\* reported and run returns nothing
C13_Witness ==
  /\ variant = "Scrap"
  /\ pc = "run_raised"
  /\ Len(results) = 1
  /\ Len(saves) = 1
  /\ saves[1] = Saved("save_results_to_csv", None, FALSE, TRUE)
  /\ ret = NotReturned

\* the records read back from the text a save operation wrote
ReadBack(save) ==
  IF save.fn = "save_results_to_csv" THEN ReadCsv(save.written) ELSE ReadJson(save.written)

\* the written files so far
Written == { k \in 1..Len(saves) : saves[k].written # None }

\* C14 as stated: the records written by save_results_to_csv and read back,
\* and written by save_results_to_json and parsed back, have the same value
\* in each of the seven fields, unset fields included.
C14_RoundTripSameValues ==
  \A k \in Written :
    /\ Len(ReadBack(saves[k])) = Len(results)
    /\ \A r \in 1..Len(results) : \A f \in DOMAIN results[r] :
         ReadBack(saves[k])[r][f] = results[r][f]

\* C14, amended: the JSON file gives back every value, unset ones (None)
\* included; the CSV file gives back every string, with its commas, quotes
\* and white space, and gives the empty string for a field that is None.
C14_RoundTripUpToNone ==
  \A k \in Written :
    /\ Len(ReadBack(saves[k])) = Len(results)
    /\ \A r \in 1..Len(results) :
         /\ DOMAIN ReadBack(saves[k])[r] = DOMAIN results[r]
         /\ \A f \in DOMAIN results[r] :
              ReadBack(saves[k])[r][f] =
                IF saves[k].fn = "save_results_to_csv" /\ results[r][f] = None THEN ""
                ELSE results[r][f]

\* Scrap.py saved a record with unset fields and one whose values hold a
\* comma and quotes, to both files
C14_Witness ==
  /\ variant = "Scrap"
  /\ pc = "done"
  /\ Len(results) = 2
  /\ results[1].clinic_name = None
  /\ results[2].clinic_name = "Smile \"Best\" Dental, LLC"
  /\ results[2].provider_name = None
  /\ Written = {1, 2}
  /\ ReadCsv(saves[1].written)[2].clinic_name = "Smile \"Best\" Dental, LLC"
  /\ ReadCsv(saves[1].written)[1].clinic_name = ""
  /\ ReadJson(saves[2].written)[1].clinic_name = None

\* C15: results only grows by appending: in every step of the run what it
\* held before is an unchanged prefix of what it holds after, and it grows by
\* at most one record.
C15_ResultsAppendOnly ==
  [][ /\ Len(results') \in { Len(results), Len(results) + 1 }
      /\ SubSeq(results', 1, Len(results)) = results ]_vars

\* two sites in a row gave a record each; the first record is still the first
C15_Witness ==
  /\ pc = "process"
  /\ Len(passes) = 2
  /\ passes[1].appended # << >>
  /\ passes[2].appended # << >>
  /\ results = passes[1].appended \o passes[2].appended
  /\ results[1].website_url # results[2].website_url

\* the number of documents requested in the passes ps
RECURSIVE Fetches(_)
Fetches(ps) == IF ps = << >> THEN 0 ELSE Len(Head(ps).fetched) + Fetches(Tail(ps))

\* C20 as stated: the documents fetched in a run of process_urls are as many
\* as the processed URLs plus the emitted records: one fetch for a site that
\* does not match or whose fetch fails, two for a matched site.
C20_FetchesAreUrlsPlusRecords ==
  /\ Fetches(passes) = Len(passes) + Len(results)
  /\ \A k \in 1..Len(passes) :
       Len(passes[k].fetched) = IF passes[k].check.found THEN 2 ELSE 1

\* C20, amended: a site that does not match or whose fetch fails is fetched
\* once and a matched site twice; an entry of the list that is not a string
\* (py.py) fails before anything is fetched and is fetched zero times, so the
\* fetches are the string entries processed plus the emitted records; a
\* matched site whose extraction fails, as when its second fetch fails, still
\* appends a record with only website_url and website_provider set.
C20_FetchesPerSite ==
  /\ \A k \in 1..Len(passes) :
       /\ Len(passes[k].fetched) =
            IF passes[k].url = None THEN 0 ELSE IF passes[k].check.found THEN 2 ELSE 1
       /\ passes[k].check.found <=> passes[k].appended # << >>
       /\ (passes[k].check.found /\ Reported(passes[k], "extract")) =>
            passes[k].appended =
              << ClinicData(Unset(variant), passes[k].url, passes[k].check.competitor) >>
  /\ Fetches(passes) =
       Cardinality({ k \in 1..Len(passes) : passes[k].url # None }) + Len(results)

\* py.py processed an entry that is no string without a fetch, then a matched
\* site whose second fetch failed: two fetches, two entries, one record, which
\* has only website_url and website_provider set
C20_Witness ==
  /\ variant = "py"
  /\ pc = "done"
  /\ Len(passes) = 2
  /\ passes[1].url = None
  /\ passes[1].fetched = << >>
  /\ passes[2].check.found
  /\ passes[2].fetched = << "http://a.example.com", "http://a.example.com" >>
  /\ Reported(passes[2], "extract")
  /\ results = << ClinicData("", "http://a.example.com", "tebra") >>
  /\ Fetches(passes) = 2

\* C16 as stated: in py.py's process_urls time.sleep is called right after
\* the site at the 1-based position p exactly when p is a multiple of 5,
\* whether the site matched, did not match or failed.
C16_SleepAfterEveryFifth ==
  variant = "py" =>
    \A p \in 1..Len(passes) : passes[p].slept <=> p % 5 = 0

\* the fifth entry of the list made the loop body raise: no sleep follows it,
\* and none follows the sixth site either
C16_Witness ==
  /\ variant = "py"
  /\ Len(passes) = 6
  /\ passes[5].raised
  /\ Reported(passes[5], "process")
  /\ \A p \in 1..6 : ~passes[p].slept

\* C17 as stated: in Scrap.py's process_urls time.sleep is called right after
\* the 10th, 20th, 30th, ... processed site and at no other point.
C17_SleepAfterEveryTenth ==
  variant = "Scrap" =>
    \A p \in 1..Len(passes) : passes[p].slept <=> p % 10 = 0

\* eleven sites processed: no sleep after the tenth, the first sleep of the
\* run after the eleventh
C17_Witness ==
  /\ variant = "Scrap"
  /\ Len(passes) = 11
  /\ \A p \in 1..10 : ~passes[p].slept
  /\ passes[11].slept

\* the urls of a list of records, in the order of the list
UrlsOf(records) == [k \in 1..Len(records) |-> records[k].url]

\* the place of the first record of the list with this url
FirstWith(records, url) ==
  CHOOSE k \in 1..Len(records) :
    records[k].url = url /\ \A m \in 1..(k - 1) : records[m].url # url

\* the list is what is left of `records` when every record whose url an
\* earlier record has is taken out
FirstPerUrl(list, records) ==
  /\ \A a, b \in 1..Len(list) : list[a].url = list[b].url => a = b
  /\ { list[a].url : a \in 1..Len(list) } = { records[k].url : k \in 1..Len(records) }
  /\ \A a \in 1..Len(list) : list[a] = records[FirstWith(records, list[a].url)]
  /\ \A a, b \in 1..Len(list) :
       a < b => FirstWith(records, list[a].url) < FirstWith(records, list[b].url)

\* the records of the file a save of the campaign wrote
ProspectsRead(save) ==
  IF save.fn = "save_to_csv" THEN ReadCsv(save.written) ELSE ReadJson(save.written)

\* C21: the prospect list run_prospecting_campaign saves and returns holds no
\* two records with the same url; it holds, for each url of the processed
\* non-corporate prospects, the first record the searches produced with it and
\* no other, in the order the searches produced them.  Each file written holds
\* one row per kept record, with the urls in that order, and the list returned
\* is the list saved.
C21_FirstRecordPerUrl ==
  (variant = "Scrapper" /\ pc # "search") =>
    /\ FirstPerUrl(unique_prospects, all_prospects)
    /\ all_prospects = Flatten([k \in 1..Len(passes) |-> passes[k].prospects])
    /\ \A k \in 1..Len(saves) :
         saves[k].written # None =>
           UrlsOf(ProspectsRead(saves[k])) = UrlsOf(unique_prospects)
    /\ IF pc = "returned" THEN ret.prospects = unique_prospects ELSE ret = NotReturned

\* the campaign made two searches; the first listed a site twice, which
\* failed at the first visit and answered at the second, the second listed it
\* again after another clinic; the list of two records, with the record of the
\* failed visit first, was saved to both files and returned
C21_Witness ==
  /\ variant = "Scrapper"
  /\ pc = "returned"
  /\ Len(passes) = 2
  /\ UrlsOf(all_prospects) =
       << "http://a.example.com", "http://a.example.com", "http://c.example.com",
          "http://a.example.com" >>
  /\ all_prospects[1].name = None
  /\ all_prospects[2].name = "Smile Dental"
  /\ all_prospects[3].vertical = "veterinary"
  /\ unique_prospects = << all_prospects[1], all_prospects[3] >>
  /\ ret.prospects = unique_prospects
  /\ Len(saves) = 2
  /\ \A k \in 1..2 : saves[k].written # None

====
